---------------------------- MODULE Spec2Model ----------------------------
(***************************************************************************)
(* Teacher attendance register of AttendEase (AttendanceContent.jsx,       *)
(* AttendanceTable.jsx, EditableAttendanceTable.jsx, SimpleCalendar.jsx).  *)
(*                                                                         *)
(* State: the React state of AttendanceContent (loading, error,            *)
(* allStudents, attendanceLogs, subjectsList, selectedDate, apiFeedback),  *)
(* the edit-mode flag and the filters of AttendanceTable, the invocations   *)
(* of the async handler handleSaveAttendance with the requests each has    *)
(* sent, the state of DownloadAttendanceDialog with the files it has       *)
(* written, the state of the teacher dashboard (DashboardContent), the     *)
(* host's clock, the bearer token of localStorage and the GET requests     *)
(* that the two views have sent.                                           *)
(*                                                                         *)
(* Time: a Date is [time, tz]: milliseconds since 2025-03-14T00:00:00Z and *)
(* the host's getTimezoneOffset() in minutes.  The wall clock is taken to  *)
(* stay at Now(tz), 23:00 local time on 2025-03-15, during a session.      *)
(***************************************************************************)
EXTENDS Integers, Sequences, FiniteSets, TLC

VARIABLES loading, error, allStudents, attendanceLogs, subjectsList,
          selectedDate, apiFeedback, isEditing, saves,
          clock, filters, downloadDialogOpen, dialog, downloads, dashboard,
          token, fetches

vars == <<loading, error, allStudents, attendanceLogs, subjectsList,
          selectedDate, apiFeedback, isEditing, saves,
          clock, filters, downloadDialogOpen, dialog, downloads, dashboard,
          token, fetches>>

\* the state of the register: its data, its edit mode and its saves
register == <<loading, error, allStudents, attendanceLogs, subjectsList,
              selectedDate, apiFeedback, isEditing, saves>>

\* the state outside the register's data, edit mode and saves
others == <<clock, filters, downloadDialogOpen, dialog, downloads, dashboard, token>>

Null == "null"

\* ------------------------------------------------------------- bounds
MaxRoster == 2
MaxLogs == 2
MaxSaves == 1
MaxDownloads == 1

\* ------------------------------------------------------ input alphabets
Rolls == {"R1", "R2"}
Subjects == {"Math", "Physics"}
HostOffsets == {300}
\* getTimezoneOffset() of the hosts from UTC+14 to UTC-12, with the
\* half-hour and quarter-hour zones of India and Nepal
UtcOffsets == {60 * h : h \in -14 .. 12} \cup {-330, -345}
CalendarDays == 0 .. 2
BackendStatuses == {"Present", "Absent"}
ToggleValues == {"present", "absent", Null}

\* ------------------------------------------------------- sequence helpers
Range(s) == {s[i] : i \in 1 .. Len(s)}

\* Array.prototype.find: the index of the first element satisfying Test,
\* 0 when there is none (find returns undefined)
Find(s, Test(_)) ==
    LET hits == {i \in 1 .. Len(s) : Test(s[i])}
    IN  IF hits = {} THEN 0
        ELSE CHOOSE i \in hits : \A j \in hits : i <= j

\* Array.prototype.map
Map(s, F(_)) == [i \in 1 .. Len(s) |-> F(s[i])]

\* [...new Set(s)]: the distinct elements in order of first occurrence
RECURSIVE Distinct(_)
Distinct(s) ==
    IF s = <<>> THEN <<>>
    ELSE LET init == Distinct(SubSeq(s, 1, Len(s) - 1))
             last == s[Len(s)]
         IN  IF last \in Range(init) THEN init ELSE Append(init, last)

\* sequences over S of length at most n without repetition
SeqsNoRep(S, n) ==
    UNION {{s \in [1 .. k -> S] : \A i, j \in 1 .. k : i # j => s[i] # s[j]}
           : k \in 0 .. n}

\* ------------------------------------------------------------ dates
\* Date.prototype.toISOString().split('T')[0] of an instant t
IsoDay(t) ==
    LET d == t \div 86400000
    IN  CASE d = -1 -> "2025-03-13"
          [] d = 0 -> "2025-03-14"
          [] d = 1 -> "2025-03-15"
          [] d = 2 -> "2025-03-16"
          [] OTHER -> "out-of-range"

\* (mutant) the date key as dateUtils has it: toISOString() of the instant
formatDateKey_Utc(date) == IsoDay(date.time)

formatDateKey(date) ==
    LET offset == date.tz
        adjustedDate == date.time - (offset * 60 * 1000)
    IN  IsoDay(adjustedDate)

\* new Date(): the wall clock, 23:00 local time on 2025-03-15
Now(tz) == [time |-> 86400000 + 23 * 3600000 + tz * 60000, tz |-> tz]

\* new Date(year, month, day): local midnight of calendar day d
LocalMidnight(d, tz) == [time |-> d * 86400000 + tz * 60000, tz |-> tz]

\* Date.prototype.toDateString(): the local calendar day
toDateString(date) == (date.time - date.tz * 60000) \div 86400000

isSameDay(d1, d2) == toDateString(d1) = toDateString(d2)
isToday(date) == isSameDay(date, Now(date.tz))

\* getFullYear(), getMonth() (0-based) and getDate(): the local calendar
\* fields of an instant of 2025-03-13 .. 2025-03-16
getFullYear(date) == 2025
getMonth(date) == 2
getDate(date) == 14 + toDateString(date)

\* String(n).padStart(2, '0')
padStart2(n) == IF n < 10 THEN "0" \o ToString(n) ELSE ToString(n)

\* the dashboard's key of today: `${getFullYear()}-${month}-${day}`, padded
targetDate(today) ==
    ToString(getFullYear(today)) \o "-" \o padStart2(getMonth(today) + 1)
       \o "-" \o padStart2(getDate(today))

\* ------------------------------------------------------------ strings
\* String.prototype.toLowerCase, character by character
LowerChar(c) ==
    CASE c = "A" -> "a" [] c = "B" -> "b" [] c = "C" -> "c" [] c = "D" -> "d"
      [] c = "E" -> "e" [] c = "F" -> "f" [] c = "G" -> "g" [] c = "H" -> "h"
      [] c = "I" -> "i" [] c = "J" -> "j" [] c = "K" -> "k" [] c = "L" -> "l"
      [] c = "M" -> "m" [] c = "N" -> "n" [] c = "O" -> "o" [] c = "P" -> "p"
      [] c = "Q" -> "q" [] c = "R" -> "r" [] c = "S" -> "s" [] c = "T" -> "t"
      [] c = "U" -> "u" [] c = "V" -> "v" [] c = "W" -> "w" [] c = "X" -> "x"
      [] c = "Y" -> "y" [] c = "Z" -> "z"
      [] OTHER -> c

RECURSIVE LowerText(_)
LowerText(s) ==
    IF s = "" THEN ""
    ELSE LowerText(SubSeq(s, 1, Len(s) - 1)) \o LowerChar(SubSeq(s, Len(s), Len(s)))

\* the texts the views lowercase, lowercased once
LoweredTexts ==
    [s \in {"Present", "Absent", "Asha", "Bilal", "R1", "R2", "", "SHA", "r2"}
        |-> LowerText(s)]

toLowerCase(s) == IF s \in DOMAIN LoweredTexts THEN LoweredTexts[s] ELSE LowerText(s)

\* String.prototype.includes
includes(text, part) ==
    \E i \in 1 .. Len(text) - Len(part) + 1 : SubSeq(text, i, i + Len(part) - 1) = part

\* newStatus.charAt(0).toUpperCase() + newStatus.slice(1)
Capitalize(s) ==
    CASE s = "present" -> "Present"
      [] s = "absent" -> "Absent"
      [] OTHER -> s

NumStr(n) ==
    CASE n = 0 -> "0" [] n = 1 -> "1" [] n = 2 -> "2" [] n = 3 -> "3"
      [] OTHER -> "many"

\* ------------------------------------------------------- backend data
NameOf(roll) == IF roll = "R1" THEN "Asha" ELSE "Bilal"
DbIdOf(roll) == IF roll = "R1" THEN 101 ELSE 102
TsIdOf(subject) == IF subject = "Math" THEN 11 ELSE 12

\* one row of GET /teachers/{id}/students/ after the mapping of fetchData
Student(roll, subject) ==
    [id |-> roll, internalId |-> DbIdOf(roll), name |-> NameOf(roll),
     class |-> subject]

\* one row of GET /attendance/teacherwise/
FetchedLog(day, subject, roll, status, stamped) ==
    [date |-> IsoDay(day * 86400000), status |-> status, roll_number |-> roll,
     student_name |-> NameOf(roll), subject_name |-> subject,
     updated_at |-> Null,
     created_at |-> IF stamped THEN "2025-03-14T08:00:00Z" ELSE Null]

LogKey(log) == <<log.date, log.subject_name, log.roll_number>>

\* the rosters the backend may return: at most MaxRoster entries, the pair
\* (roll number, subject) unique.  Renaming roll numbers and subjects maps
\* every roster to one whose first entry is R1's Math entry, and the log
\* lists and subject mappings below are closed under renaming.
Rosters ==
    {Map(s, LAMBDA p : Student(p[1], p[2])) :
        s \in {q \in SeqsNoRep(Rolls \X Subjects, MaxRoster) :
                  q # <<>> => q[1] = <<"R1", "Math">>}}

\* a roster listed R1 before R2, Math before Physics (a save reads the roster
\* by roll number only, so one order stands for all)
InListingOrder(roster) ==
    LET rank(s) == (IF s.id = "R1" THEN 0 ELSE 2) + (IF s.class = "Math" THEN 0 ELSE 1)
    IN  \A i, j \in 1 .. Len(roster) : i < j => rank(roster[i]) < rank(roster[j])

\* the log lists the backend may return: at most MaxLogs entries dated
\* within `days`, at most one per (date, subject, roll number)
FetchedLogListsWith(days, statuses) ==
    LET All == {FetchedLog(d, s, r, st, TRUE) :
                   d \in days, s \in Subjects, r \in Rolls, st \in statuses}
    IN  {l \in SeqsNoRep(All, MaxLogs) :
            \A i, j \in 1 .. Len(l) : i # j => LogKey(l[i]) # LogKey(l[j])}

FetchedLogLists(days) == FetchedLogListsWith(days, BackendStatuses)

SubjectLists ==
    {<<>>,
     <<[ts_id |-> TsIdOf("Math"), subject_name |-> "Math"]>>,
     <<[ts_id |-> TsIdOf("Physics"), subject_name |-> "Physics"]>>,
     <<[ts_id |-> TsIdOf("Math"), subject_name |-> "Math"],
       [ts_id |-> TsIdOf("Physics"), subject_name |-> "Physics"]>>}


\* ------------------------------------------------------------ display
\* formatLastUpdated: "-" for a missing stamp, else the stamp formatted
\* (a display text is a tuple of its parts)
formatLastUpdated(isoString) ==
    IF isoString = Null THEN <<"-">> ELSE <<"en-US short", isoString>>

\* attendanceLogs.filter(log => log.date === dateKey)
LogsOfDate(logs, dateKey) == SelectSeq(logs, LAMBDA log : log.date = dateKey)

\* (mutant) the log is matched by roll number alone
FindLogEntry_RollOnly(todaysLogs, student) ==
    Find(todaysLogs, LAMBDA log : log.roll_number = student.id)

\* todaysLogs.find(...): the index in todaysLogs of a roster entry's log
FindLogEntry(todaysLogs, student) ==
    Find(todaysLogs, LAMBDA log : log.roll_number = student.id
                                  /\ log.subject_name = student.class)

\* one row of dailyData
DailyRow(logs, dateKey, student) ==
    LET todaysLogs == LogsOfDate(logs, dateKey)
        found == FindLogEntry(todaysLogs, student)
        logEntry == todaysLogs[found]
        lastUpdatedText ==
            IF found = 0 THEN <<"-">>
            ELSE IF logEntry.updated_at # Null
                 THEN formatLastUpdated(logEntry.updated_at)
            ELSE IF logEntry.created_at # Null
                 THEN formatLastUpdated(logEntry.created_at)
            ELSE IF logEntry.date # Null THEN <<logEntry.date>>
            ELSE <<"-">>
    IN  student @@ [status |-> IF found # 0 THEN toLowerCase(logEntry.status) ELSE Null,
                    lastUpdated |-> lastUpdatedText]

\* logEntry.status.toLowerCase() throws a TypeError for the matched log of
\* some roster entry: its status is undefined (the field is missing)
dailyDataThrows(students, logs, date) ==
    LET todaysLogs == LogsOfDate(logs, formatDateKey(date))
    IN  \E i \in 1 .. Len(students) :
           LET found == FindLogEntry(todaysLogs, students[i])
           IN  found # 0 /\ todaysLogs[found].status = Null

\* the useMemo of AttendanceContent: roster merged with the day's logs
\* (defined when it does not throw)
dailyDataOf(students, logs, date) ==
    Map(students, LAMBDA student : DailyRow(logs, formatDateKey(date), student))

dailyData == dailyDataOf(allStudents, attendanceLogs, selectedDate)

\* (mutant) the editable table whatever the date and the mode
canEdit_Always == TRUE

\* AttendanceTable: the table is editable for today or in 'Edit Past' mode
canEdit == isToday(selectedDate) \/ isEditing

\* the view is rendered: neither the spinner nor the error screen, and the
\* render has not thrown (no error boundary catches it: React unmounts the tree)
Rendered ==
    /\ ~loading
    /\ error = Null
    /\ ~dailyDataThrows(allStudents, attendanceLogs, selectedDate)

\* ------------------------------------------------------- summary cards
\* students.filter(test).length
CountRows(students, Test(_)) == Len(SelectSeq(students, Test))

\* (mutant) the cards compare with the backend's spelling of the status
AttendanceCardsOf_BackendSpelling(students) ==
    [totalStudents |-> Len(students),
     present |-> CountRows(students, LAMBDA s : s.status = "Present"),
     absent |-> CountRows(students, LAMBDA s : s.status = "Absent"),
     notMarked |-> CountRows(students, LAMBDA s : s.status = Null \/ s.status = "")]

\* AttendanceCards: the counts of the summary cards (!s.status holds for
\* null, undefined and the empty string)
AttendanceCardsOf(students) ==
    [totalStudents |-> Len(students),
     present |-> CountRows(students, LAMBDA s : s.status = "present"),
     absent |-> CountRows(students, LAMBDA s : s.status = "absent"),
     notMarked |-> CountRows(students, LAMBDA s : s.status = Null \/ s.status = "")]

\* <AttendanceCard students={dailyData} />
AttendanceCards == AttendanceCardsOf(dailyData)

\* ------------------------------------------------------- local edit
\* (mutant) the old entry of the tuple is kept
handleLocalUpdate_KeepOld(prevLogs, students, date, studentId, newStatus) ==
    LET dateKey == formatDateKey(date)
        found == Find(students, LAMBDA s : s.id = studentId)
        student == students[found]
    IN  IF found = 0 THEN prevLogs
        ELSE Append(prevLogs,
                    [date |-> dateKey, status |-> Capitalize(newStatus),
                     roll_number |-> student.id,
                     student_name |-> student.name,
                     subject_name |-> student.class,
                     updated_at |-> "now", created_at |-> "now"])

\* the updater handleLocalUpdate hands to setAttendanceLogs
handleLocalUpdate(prevLogs, students, date, studentId, newStatus) ==
    LET dateKey == formatDateKey(date)
        found == Find(students, LAMBDA s : s.id = studentId)
        student == students[found]
    IN  IF found = 0 THEN prevLogs
        ELSE LET cleanLogs ==
                     SelectSeq(prevLogs, LAMBDA log :
                         ~(log.date = dateKey /\ log.roll_number = studentId
                           /\ log.subject_name = student.class))
                 newLogEntry ==
                     [date |-> dateKey, status |-> Capitalize(newStatus),
                      roll_number |-> student.id,
                      student_name |-> student.name,
                      subject_name |-> student.class,
                      updated_at |-> "now", created_at |-> "now"]
             IN  Append(cleanLogs, newLogEntry)

\* (mutant) a null value (the active toggle pressed again) clears the mark
handleStatusChange_NullClears(prevLogs, students, date, studentId, newStatus) ==
    IF newStatus # Null
    THEN handleLocalUpdate(prevLogs, students, date, studentId, newStatus)
    ELSE SelectSeq(prevLogs, LAMBDA log :
             ~(log.date = formatDateKey(date) /\ log.roll_number = studentId))

\* EditableAttendanceTable.handleStatusChange: a null value (the active
\* toggle pressed again) is dropped, any other reaches onAttendanceUpdate
handleStatusChange(prevLogs, students, date, studentId, newStatus) ==
    IF newStatus # Null
    THEN handleLocalUpdate(prevLogs, students, date, studentId, newStatus)
    ELSE prevLogs

\* ------------------------------------------------------------- save
\* subjectsList.find(s => s.subject_name === subjectName): index, 0 if none
FindSubject(subjects, subjectName) ==
    Find(subjects, LAMBDA s : s.subject_name = subjectName)

\* [...new Set(logsToSave.map(l => l.subject_name))]
DistinctSubjects(logsToSave) ==
    Distinct(Map(logsToSave, LAMBDA l : l.subject_name))

\* allStudents.find(s => s.id === l.roll_number)?.internalId, 0 for undefined
InternalIdOf(students, roll) ==
    LET found == Find(students, LAMBDA s : s.id = roll)
    IN  IF found = 0 THEN 0 ELSE students[found].internalId

\* subjectLogs.filter(status).map(internalId).filter(Boolean)
IdsWithStatus(subjectLogs, students, status) ==
    LET marked == SelectSeq(subjectLogs, LAMBDA l : l.status = status)
        ids == Map(marked, LAMBDA l : InternalIdOf(students, l.roll_number))
    IN  SelectSeq(ids, LAMBDA id : id # 0)

PresentIds(subjectLogs, students) == IdsWithStatus(subjectLogs, students, "Present")

\* (mutant) the absent list is filtered by 'Present' too
AbsentIds_Present(subjectLogs, students) ==
    IdsWithStatus(subjectLogs, students, "Present")

AbsentIds(subjectLogs, students) == IdsWithStatus(subjectLogs, students, "Absent")

\* the body of POST /attendance/mark/ for one subject
Payload(subjectName, logsToSave, students, subjects, dateKey) ==
    LET subjectObj == subjects[FindSubject(subjects, subjectName)]
        subjectLogs == SelectSeq(logsToSave,
                                 LAMBDA l : l.subject_name = subjectName)
    IN  [ts_id |-> subjectObj.ts_id,
         attendance_date |-> dateKey,
         present |-> PresentIds(subjectLogs, students),
         absent |-> AbsentIds(subjectLogs, students)]

\* (mutant) an unresolved subject ends the loop (`break` for `continue`)
NextToSend_Break(distinctSubjects, subjects, from) ==
    IF from <= Len(distinctSubjects)
       /\ FindSubject(subjects, distinctSubjects[from]) # 0
    THEN from ELSE 0

\* the next iteration of the for loop, from index `from`, that reaches the
\* fetch: the first subject found in the mapping (`continue` skips the
\* others); 0 when the loop runs out
NextToSend(distinctSubjects, subjects, from) ==
    LET hits == {j \in from .. Len(distinctSubjects) :
                    FindSubject(subjects, distinctSubjects[j]) # 0}
    IN  IF hits = {} THEN 0
        ELSE CHOOSE j \in hits : \A k \in hits : j <= k

\* the messages handed to setApiFeedback
NothingToSave ==
    [open |-> TRUE, message |-> <<"No attendance data to save.">>,
     severity |-> "info"]

ErrorSaving(subjectName) ==
    [open |-> TRUE, message |-> <<"Error saving ", subjectName>>,
     severity |-> "error"]

SavedFor(successCount) ==
    [open |-> TRUE,
     message |-> <<"Attendance saved for ", NumStr(successCount), " subjects!">>,
     severity |-> "success"]

\* the code after the loop: what it hands to setApiFeedback, the success
\* message when a write succeeded and nothing otherwise
AfterLoop(successCount) ==
    IF successCount > 0 THEN <<SavedFor(successCount)>> ELSE <<>>

\* An invocation of handleSaveAttendance is a record: pc ("awaiting" the
\* answer to its last request, or "done"), its locals dateKey, logsToSave,
\* distinctSubjects, successCount, the loop index `at`, the requests it has
\* sent with the outcome of each, and `reported`, the values it has handed to
\* setApiFeedback, in order.

\* the code after the loop, at the end of the invocation
FinishSave(save, feedback) ==
    LET set == AfterLoop(save.successCount)
    IN  <<[save EXCEPT !.pc = "done", !.reported = @ \o set],
          IF set = <<>> THEN feedback ELSE set[Len(set)]>>

\* handleSaveAttendance run from loop index `from` up to its next await or
\* its end: <<the invocation, the apiFeedback it leaves>>
RunLoop(save, from, students, subjects, feedback) ==
    LET j == NextToSend(save.distinctSubjects, subjects, from)
    IN  IF j = 0
        THEN FinishSave(save, feedback)
        ELSE <<[save EXCEPT
                  !.pc = "awaiting", !.at = j,
                  !.requests = Append(@,
                      [subject |-> save.distinctSubjects[j],
                       payload |-> Payload(save.distinctSubjects[j],
                                           save.logsToSave, students, subjects,
                                           save.dateKey),
                       outcome |-> "pending"])],
               feedback>>

\* (mutant) no early return for an empty day
StartSave_NoEmptyCheck(logs, date, students, subjects, feedback) ==
    LET dateKey == formatDateKey(date)
        logsToSave == LogsOfDate(logs, dateKey)
        distinctSubjects == DistinctSubjects(logsToSave)
        save == [pc |-> "done", dateKey |-> dateKey, logsToSave |-> logsToSave,
                 distinctSubjects |-> distinctSubjects, at |-> 0,
                 successCount |-> 0, requests |-> <<>>, reported |-> <<>>]
    IN  RunLoop(save, 1, students, subjects, feedback)

\* handleSaveAttendance from its call to its first await or its end
StartSave(logs, date, students, subjects, feedback) ==
    LET dateKey == formatDateKey(date)
        logsToSave == LogsOfDate(logs, dateKey)
        distinctSubjects == DistinctSubjects(logsToSave)
        save == [pc |-> "done", dateKey |-> dateKey, logsToSave |-> logsToSave,
                 distinctSubjects |-> distinctSubjects, at |-> 0,
                 successCount |-> 0, requests |-> <<>>, reported |-> <<>>]
    IN  IF Len(distinctSubjects) = 0
        THEN <<[save EXCEPT !.reported = <<NothingToSave>>], NothingToSave>>
        ELSE RunLoop(save, 1, students, subjects, feedback)

\* (mutant) successCount++ before the check of response.ok
ResumeSave_CountsEveryAnswer(save, ok, students, subjects, feedback) ==
    LET n == Len(save.requests)
        subjectName == save.distinctSubjects[save.at]
        answered == [save EXCEPT
                       !.requests[n].outcome = IF ok THEN "ok" ELSE "failed",
                       !.successCount = @ + 1,
                       !.reported = IF ok THEN @
                                    ELSE Append(@, ErrorSaving(subjectName))]
        caught == IF ok THEN feedback ELSE ErrorSaving(subjectName)
    IN  RunLoop(answered, save.at + 1, students, subjects, caught)

\* (mutant) the catch logs to the console only
ResumeSave_SilentCatch(save, ok, students, subjects, feedback) ==
    LET n == Len(save.requests)
        answered == [save EXCEPT
                       !.requests[n].outcome = IF ok THEN "ok" ELSE "failed",
                       !.successCount = IF ok THEN @ + 1 ELSE @]
    IN  RunLoop(answered, save.at + 1, students, subjects, feedback)

\* (mutant) the loop reads the log store as it is when the answer arrives
\* (a ref to the latest logs instead of the list of the closure)
ResumeSave_CurrentLogs(save, ok, students, subjects, feedback) ==
    LET n == Len(save.requests)
        subjectName == save.distinctSubjects[save.at]
        answered == [save EXCEPT
                       !.requests[n].outcome = IF ok THEN "ok" ELSE "failed",
                       !.successCount = IF ok THEN @ + 1 ELSE @,
                       !.logsToSave = LogsOfDate(attendanceLogs, save.dateKey),
                       !.reported = IF ok THEN @
                                    ELSE Append(@, ErrorSaving(subjectName))]
        caught == IF ok THEN feedback ELSE ErrorSaving(subjectName)
    IN  RunLoop(answered, save.at + 1, students, subjects, caught)

\* handleSaveAttendance resumed by the answer to its pending request
ResumeSave(save, ok, students, subjects, feedback) ==
    LET n == Len(save.requests)
        subjectName == save.distinctSubjects[save.at]
        answered == [save EXCEPT
                       !.requests[n].outcome = IF ok THEN "ok" ELSE "failed",
                       !.successCount = IF ok THEN @ + 1 ELSE @,
                       !.reported = IF ok THEN @
                                    ELSE Append(@, ErrorSaving(subjectName))]
        caught == IF ok THEN feedback ELSE ErrorSaving(subjectName)
    IN  RunLoop(answered, save.at + 1, students, subjects, caught)

\* ---------------------------------------------------- table filters
\* current_semester of the backend's student rows (a number, written as
\* its decimal text so that it can share a menu with the 'All' sentinel)
SemesterOf(roll, course) == IF (roll = "R1") = (course = "BSc") THEN "3" ELSE "5"

\* a row of the students request with its course and semester mapped too
TableStudent(roll, subject, course) ==
    Student(roll, subject) @@ [course |-> course, semester |-> SemesterOf(roll, course)]

\* the texts typed into the search box
SearchTexts == {"", "SHA", "r2"}

\* (mutant) the search compares the texts as typed
filteredRowsOf_CaseSensitive(students, f) ==
    SelectSeq(students, LAMBDA student :
       LET matchesSearch == \/ includes(student.name, f.searchQuery)
                            \/ includes(student.id, f.searchQuery)
           matchesClass == f.classFilter = "all" \/ student.class = f.classFilter
           matchesCourse == f.courseFilter = "all" \/ student.course = f.courseFilter
           matchesSemester == f.semesterFilter = "all" \/ student.semester = f.semesterFilter
           matchesNotMarked == ~f.notMarkedOnly \/ student.status = Null
       IN  matchesSearch /\ matchesClass /\ matchesCourse /\ matchesSemester
              /\ matchesNotMarked)

\* filteredStudents of AttendanceTable
filteredRowsOf(students, f) ==
    SelectSeq(students, LAMBDA student :
       LET matchesSearch ==
              \/ includes(toLowerCase(student.name), toLowerCase(f.searchQuery))
              \/ includes(toLowerCase(student.id), toLowerCase(f.searchQuery))
           matchesClass == f.classFilter = "all" \/ student.class = f.classFilter
           matchesCourse == f.courseFilter = "all" \/ student.course = f.courseFilter
           matchesSemester == f.semesterFilter = "all" \/ student.semester = f.semesterFilter
           matchesNotMarked == ~f.notMarkedOnly \/ student.status = Null
       IN  matchesSearch /\ matchesClass /\ matchesCourse /\ matchesSemester
              /\ matchesNotMarked)

filteredRows == filteredRowsOf(dailyData, filters)

\* the values of the rows-per-page menu of the two tables
RowsPerPageOptions == {5, 10, 25}

\* filteredStudents.slice(page * rowsPerPage, page * rowsPerPage + rowsPerPage)
paginatedStudentsOf(rows, page, rowsPerPage) ==
    SubSeq(rows, page * rowsPerPage + 1,
           IF page * rowsPerPage + rowsPerPage < Len(rows)
           THEN page * rowsPerPage + rowsPerPage ELSE Len(rows))

paginatedStudents == paginatedStudentsOf(filteredRows, filters.page, filters.rowsPerPage)

\* -------------------------------------------------------- dashboard
\* attendance_percentage of the backend's student rows, in tenths of a
\* percent (-1: the field is null)
PercentageOf(roll, subject) ==
    CASE roll = "R1" /\ subject = "Math" -> 744
      [] roll = "R1" /\ subject = "Physics" -> 745
      [] roll = "R2" /\ subject = "Math" -> -1
      [] OTHER -> 1000

\* Math.round(item.attendance_percentage || 0), the percentage in tenths
RoundPercentage(tenths) == IF tenths < 0 THEN 0 ELSE (tenths + 5) \div 10

\* one row of GET /teachers/{id}/students/ after the dashboard's mapping
DashboardStudent(roll, subject, course) ==
    [id |-> DbIdOf(roll), name |-> NameOf(roll), subject |-> subject,
     course |-> course, semester |-> SemesterOf(roll, course),
     attendanceRate |-> RoundPercentage(PercentageOf(roll, subject)),
     rollNumber |-> roll]

\* a list in the order R1 before R2, Math before Physics, by (roll, subject)
\* pairs, each pair at most once
ListedOnce(pairs) ==
    LET rank(p) == (IF p[1] = "R1" THEN 0 ELSE 2) + (IF p[2] = "Math" THEN 0 ELSE 1)
    IN  \A i, j \in 1 .. Len(pairs) : i < j => rank(pairs[i]) < rank(pairs[j])

\* the register's rosters with course and semester, listed once
TableRosters ==
    {Map(s, LAMBDA p : TableStudent(p[1], p[2], p[3])) :
        s \in {q \in SeqsNoRep(Rolls \X Subjects \X {"BSc", "BCA"}, MaxRoster) :
                  ListedOnce(q)}}

\* the rosters the backend may return to the dashboard: at most MaxRoster
\* rows, one per (roll number, subject), of either course
DashboardRosters ==
    {Map(s, LAMBDA p : DashboardStudent(p[1], p[2], p[3])) :
        s \in {q \in SeqsNoRep(Rolls \X Subjects \X {"BSc", "BCA"}, MaxRoster) :
                  ListedOnce(q)}}

\* the log lists the backend may return to the dashboard: an entry of
\* 2025-03-14 and at most MaxLogs entries of 2025-03-15
DashboardLogLists ==
    {<<FetchedLog(0, "Math", "R1", "Present", TRUE)>> \o today :
        today \in {l \in FetchedLogLists({1}) :
                      ListedOnce(Map(l, LAMBDA log : <<log.roll_number, log.subject_name>>))}}

\* (mutant) the course filter is skipped when a subject is selected
filteredListOf_ElseIf(studentsData, selectedSubject, selectedCourse, selectedSemester, showLowAttendance) ==
    LET bySubject == IF selectedSubject # "All"
                     THEN SelectSeq(studentsData, LAMBDA s : s.subject = selectedSubject)
                     ELSE IF selectedCourse # "All"
                     THEN SelectSeq(studentsData, LAMBDA s : s.course = selectedCourse)
                     ELSE studentsData
        bySemester == IF selectedSemester # "All"
                      THEN SelectSeq(bySubject, LAMBDA s : s.semester = selectedSemester)
                      ELSE bySubject
    IN  IF showLowAttendance
        THEN SelectSeq(bySemester, LAMBDA s : s.attendanceRate < 75)
        ELSE bySemester

\* the sequential filters of the useMemo
filteredListOf(studentsData, selectedSubject, selectedCourse, selectedSemester, showLowAttendance) ==
    LET bySubject == IF selectedSubject # "All"
                     THEN SelectSeq(studentsData, LAMBDA s : s.subject = selectedSubject)
                     ELSE studentsData
        byCourse == IF selectedCourse # "All"
                    THEN SelectSeq(bySubject, LAMBDA s : s.course = selectedCourse)
                    ELSE bySubject
        bySemester == IF selectedSemester # "All"
                      THEN SelectSeq(byCourse, LAMBDA s : s.semester = selectedSemester)
                      ELSE byCourse
    IN  IF showLowAttendance
        THEN SelectSeq(bySemester, LAMBDA s : s.attendanceRate < 75)
        ELSE bySemester

filteredStudents ==
    filteredListOf(dashboard.studentsData, dashboard.selectedSubject,
                   dashboard.selectedCourse, dashboard.selectedSemester,
                   dashboard.showLowAttendance)

\* filteredList.reduce((acc, curr) => acc + curr.attendanceRate, 0)
RECURSIVE SumOfRates(_)
SumOfRates(list) ==
    IF list = <<>> THEN 0
    ELSE SumOfRates(SubSeq(list, 1, Len(list) - 1)) + list[Len(list)].attendanceRate

\* (mutant) the mean is truncated
avgAttendanceOf_Floor(filteredList) ==
    IF Len(filteredList) > 0
    THEN SumOfRates(filteredList) \div Len(filteredList)
    ELSE 0

\* Math.round(sum / totalStudents), or 0: Math.round(x) is floor(x + 0.5)
avgAttendanceOf(filteredList) ==
    LET totalStudents == Len(filteredList)
    IN  IF totalStudents > 0
        THEN (2 * SumOfRates(filteredList) + totalStudents) \div (2 * totalStudents)
        ELSE 0

\* today's logs, of the selected subject when one is selected
todaysLogsOf(logs, today, selectedSubject) ==
    LET ofToday == SelectSeq(logs, LAMBDA log : log.date = targetDate(today))
    IN  IF selectedSubject # "All"
        THEN SelectSeq(ofToday, LAMBDA log : log.subject_name = selectedSubject)
        ELSE ofToday

CountStatus(logs, status) == Len(SelectSeq(logs, LAMBDA log : log.status = status))

\* (mutant) the difference is not clamped
notMarkedOf_Unclamped(expected, presentToday, explicitAbsent) ==
    expected - (presentToday + explicitAbsent)

\* Math.max(0, expected - (presentToday + explicitAbsent))
notMarkedOf(expected, presentToday, explicitAbsent) ==
    LET d == expected - (presentToday + explicitAbsent)
    IN  IF d > 0 THEN d ELSE 0

\* studentsData.filter(s => selectedSubject === "All" || s.subject === ...).length
studentsExpectedTodayOf(studentsData, selectedSubject) ==
    Len(SelectSeq(studentsData,
                  LAMBDA s : selectedSubject = "All" \/ s.subject = selectedSubject))

\* the stats of the dashboard (DashboardContent with studentsExpectedToday)
statsOf(d, today) ==
    LET filteredList == filteredListOf(d.studentsData, d.selectedSubject, d.selectedCourse,
                                       d.selectedSemester, d.showLowAttendance)
        todaysLogs == todaysLogsOf(d.attendanceLogs, today, d.selectedSubject)
        presentToday == CountStatus(todaysLogs, "Present")
        explicitAbsent == CountStatus(todaysLogs, "Absent")
    IN  [totalStudents |-> Len(filteredList),
         presentToday |-> presentToday,
         absentToday |-> explicitAbsent,
         notMarked |-> notMarkedOf(studentsExpectedTodayOf(d.studentsData, d.selectedSubject),
                                   presentToday, explicitAbsent),
         avgAttendance |-> avgAttendanceOf(filteredList)]

stats == statsOf(dashboard, clock)

\* the stats of the other DashboardContent, which counts against totalStudents
statsOfTotal(d, today) ==
    LET filteredList == filteredListOf(d.studentsData, d.selectedSubject, d.selectedCourse,
                                       d.selectedSemester, d.showLowAttendance)
        todaysLogs == todaysLogsOf(d.attendanceLogs, today, d.selectedSubject)
        presentToday == CountStatus(todaysLogs, "Present")
        explicitAbsent == CountStatus(todaysLogs, "Absent")
    IN  [totalStudents |-> Len(filteredList),
         presentToday |-> presentToday,
         absentToday |-> explicitAbsent,
         notMarked |-> notMarkedOf(Len(filteredList), presentToday, explicitAbsent),
         avgAttendance |-> avgAttendanceOf(filteredList)]

\* (mutant) the alert list is taken from the filtered list
lowAttendanceListOf_Filtered(d) ==
    SelectSeq(filteredListOf(d.studentsData, d.selectedSubject, d.selectedCourse,
                             d.selectedSemester, d.showLowAttendance),
              LAMBDA s : s.attendanceRate < 75)

\* globalLowAttendance: studentsData.filter(s => s.attendanceRate < 75)
lowAttendanceListOf(d) == SelectSeq(d.studentsData, LAMBDA s : s.attendanceRate < 75)

lowAttendanceList == lowAttendanceListOf(dashboard)

\* the options of the course and semester menus
uniqueCourses == {dashboard.studentsData[i].course : i \in 1 .. Len(dashboard.studentsData)}
uniqueSemesters == {dashboard.studentsData[i].semester : i \in 1 .. Len(dashboard.studentsData)}

DashboardRendered == ~dashboard.loading /\ dashboard.error = Null

\* ------------------------------------------------------------- export
\* the values the month input is set to
ExportMonths == {"2025-03", "2025-04"}

DigitOf(c) ==
    CASE c = "0" -> 0 [] c = "1" -> 1 [] c = "2" -> 2 [] c = "3" -> 3
      [] c = "4" -> 4 [] c = "5" -> 5 [] c = "6" -> 6 [] c = "7" -> 7
      [] c = "8" -> 8 [] c = "9" -> 9

\* parseInt of a text of decimal digits
RECURSIVE parseInt(_)
parseInt(s) ==
    IF Len(s) = 1 THEN DigitOf(s)
    ELSE 10 * parseInt(SubSeq(s, 1, Len(s) - 1)) + DigitOf(SubSeq(s, Len(s), Len(s)))

\* (mutant) new Date(year, month - 1, 0).getDate(): the month taken as an
\* index from 0, which gives the last day of the month before
getDaysInMonth_MonthIndex(year, month) ==
    CASE month \in {5, 7, 10, 12} -> 30
      [] month = 3 -> IF year % 4 = 0 /\ (year % 100 # 0 \/ year % 400 = 0)
                      THEN 29 ELSE 28
      [] OTHER -> 31

\* new Date(year, month, 0).getDate(): day 0 of the following month, which
\* is the last day of month `month` (1-12)
getDaysInMonth(year, month) ==
    CASE month \in {4, 6, 9, 11} -> 30
      [] month = 2 -> IF year % 4 = 0 /\ (year % 100 # 0 \/ year % 400 = 0)
                      THEN 29 ELSE 28
      [] OTHER -> 31

\* String.prototype.startsWith
startsWith(text, prefix) ==
    Len(prefix) <= Len(text) /\ SubSeq(text, 1, Len(prefix)) = prefix

\* `${year}-${String(month).padStart(2, '0')}-${String(day).padStart(2, '0')}`
dateStringOf(year, month, day) ==
    ToString(year) \o "-" \o padStart2(month) \o "-" \o padStart2(day)

\* the roster entries of the selected course, semester and subject
targetStudentsOf(students, dlg) ==
    SelectSeq(students, LAMBDA s : /\ s.course = dlg.selectedCourse
                                   /\ s.semester = dlg.selectedSemester
                                   /\ s.class = dlg.selectedSubject)

\* (mutant) the logs of the month, of every subject
monthLogsOf_AnySubject(logs, selectedMonth, selectedSubject) ==
    SelectSeq(logs, LAMBDA log : startsWith(log.date, selectedMonth))

\* the logs of the selected month and subject
monthLogsOf(logs, selectedMonth, selectedSubject) ==
    SelectSeq(logs, LAMBDA log : /\ startsWith(log.date, selectedMonth)
                                 /\ log.subject_name = selectedSubject)

\* (mutant) the class dates, one per log
uniqueClassDatesOf_PerLog(monthLogs) == Map(monthLogs, LAMBDA l : l.date)

\* [...new Set(monthLogs.map(l => l.date))]
uniqueClassDatesOf(monthLogs) == Distinct(Map(monthLogs, LAMBDA l : l.date))

\* the cell of one student and one day
cellOf(monthLogs, uniqueClassDates, dateString, student) ==
    LET log == Find(monthLogs, LAMBDA l : /\ l.date = dateString
                                          /\ l.roll_number = student.id)
    IN  IF log # 0
        THEN IF monthLogs[log].status = "Present" THEN "P" ELSE "A"
        ELSE IF dateString \in Range(uniqueClassDates) THEN "-" ELSE ""

\* ((daysPresent / totalClassesHeld) * 100).toFixed(2), or "0.00"
percentageOf(daysPresent, totalClassesHeld) ==
    IF totalClassesHeld > 0
    THEN LET hundredths == (2 * daysPresent * 10000 + totalClassesHeld)
                              \div (2 * totalClassesHeld)
         IN  ToString(hundredths \div 100) \o "." \o padStart2(hundredths % 100)
    ELSE "0.00"

\* (mutant) Days Present counts every 'Present' log of the student
rowOf_CountsEveryLog(student, monthLogs, uniqueClassDates, year, month, daysInMonth) ==
    LET cell(day) == cellOf(monthLogs, uniqueClassDates,
                            dateStringOf(year, month, day), student)
        cells == [day \in 1 .. daysInMonth |-> cell(day)]
        daysPresent == Len(SelectSeq(monthLogs, LAMBDA l : /\ l.roll_number = student.id
                                                          /\ l.status = "Present"))
        totalClassesHeld == Len(uniqueClassDates)
    IN  [colName \in {ToString(day) : day \in 1 .. daysInMonth}
            |-> cells[parseInt(colName)]]
        @@ ("Roll No" :> student.id)
        @@ ("Name" :> student.name)
        @@ ("Total Classes" :> totalClassesHeld)
        @@ ("Days Present" :> daysPresent)
        @@ ("Percentage" :> percentageOf(daysPresent, totalClassesHeld) \o "%")

\* one row of excelData, a value per column name
rowOf(student, monthLogs, uniqueClassDates, year, month, daysInMonth) ==
    LET cell(day) == cellOf(monthLogs, uniqueClassDates,
                            dateStringOf(year, month, day), student)
        cells == [day \in 1 .. daysInMonth |-> cell(day)]
        daysPresent == Cardinality({day \in 1 .. daysInMonth : cells[day] = "P"})
        totalClassesHeld == Len(uniqueClassDates)
    IN  [colName \in {ToString(day) : day \in 1 .. daysInMonth}
            |-> cells[parseInt(colName)]]
        @@ ("Roll No" :> student.id)
        @@ ("Name" :> student.name)
        @@ ("Total Classes" :> totalClassesHeld)
        @@ ("Days Present" :> daysPresent)
        @@ ("Percentage" :> percentageOf(daysPresent, totalClassesHeld) \o "%")

\* the rows of the sheet
excelDataOf(targetStudents, logs, dlg) ==
    LET year == parseInt(SubSeq(dlg.selectedMonth, 1, 4))
        month == parseInt(SubSeq(dlg.selectedMonth, 6, 7))
        daysInMonth == getDaysInMonth(year, month)
        monthLogs == monthLogsOf(logs, dlg.selectedMonth, dlg.selectedSubject)
        uniqueClassDates == uniqueClassDatesOf(monthLogs)
    IN  Map(targetStudents,
            LAMBDA student : rowOf(student, monthLogs, uniqueClassDates,
                                   year, month, daysInMonth))

\* ["Roll No", "Name", ...dayColumns, "Total Classes", "Days Present", "Percentage"]
headerOrderOf(daysInMonth) ==
    <<"Roll No", "Name">> \o [i \in 1 .. daysInMonth |-> ToString(i)]
       \o <<"Total Classes", "Days Present", "Percentage">>

IsAlphanumeric(c) ==
    \E i \in 1 .. 62 :
       SubSeq("abcdefghijklmnopqrstuvwxyzABCDEFGHIJKLMNOPQRSTUVWXYZ0123456789", i, i) = c

\* (mutant) the pattern without its i flag: selectedSubject.replace(/[^a-z0-9]/g, '_')
RECURSIVE replaceNonAlphanumeric_CaseSensitive(_)
replaceNonAlphanumeric_CaseSensitive(s) ==
    IF s = "" THEN ""
    ELSE LET c == SubSeq(s, Len(s), Len(s))
         IN  replaceNonAlphanumeric_CaseSensitive(SubSeq(s, 1, Len(s) - 1))
                \o (IF IsAlphanumeric(c) /\ LowerChar(c) = c THEN c ELSE "_")

\* selectedSubject.replace(/[^a-z0-9]/gi, '_')
RECURSIVE replaceNonAlphanumeric(_)
replaceNonAlphanumeric(s) ==
    IF s = "" THEN ""
    ELSE LET c == SubSeq(s, Len(s), Len(s))
         IN  replaceNonAlphanumeric(SubSeq(s, 1, Len(s) - 1))
                \o (IF IsAlphanumeric(c) THEN c ELSE "_")

fileNameOf(selectedSubject, selectedMonth) ==
    LET safeSubject == LowerText(replaceNonAlphanumeric(selectedSubject))
    IN  "Attendance_" \o safeSubject \o "_" \o selectedMonth \o ".xlsx"

SelectAll == "Please select Subject, Course, and Semester."
NoStudents == "No students found matching this Subject, Course, and Semester."

\* (mutant) handleDownload without the check of targetStudents.length
handleDownloadOf_NoEmptyCheck(students, logs, dlg) ==
    IF dlg.selectedSubject = "" \/ dlg.selectedCourse = "" \/ dlg.selectedSemester = ""
    THEN [error |-> SelectAll, written |-> <<>>]
    ELSE LET targetStudents == targetStudentsOf(students, dlg)
             year == parseInt(SubSeq(dlg.selectedMonth, 1, 4))
             month == parseInt(SubSeq(dlg.selectedMonth, 6, 7))
         IN  [error |-> Null,
              written |-> <<[fileName |-> fileNameOf(dlg.selectedSubject, dlg.selectedMonth),
                             header |-> headerOrderOf(getDaysInMonth(year, month)),
                             rows |-> excelDataOf(targetStudents, logs, dlg)]>>]

\* handleDownload: the error it sets and the file it writes, if any
handleDownloadOf(students, logs, dlg) ==
    IF dlg.selectedSubject = "" \/ dlg.selectedCourse = "" \/ dlg.selectedSemester = ""
    THEN [error |-> SelectAll, written |-> <<>>]
    ELSE LET targetStudents == targetStudentsOf(students, dlg)
             year == parseInt(SubSeq(dlg.selectedMonth, 1, 4))
             month == parseInt(SubSeq(dlg.selectedMonth, 6, 7))
         IN  IF Len(targetStudents) = 0
             THEN [error |-> NoStudents, written |-> <<>>]
             ELSE [error |-> Null,
                   written |-> <<[fileName |-> fileNameOf(dlg.selectedSubject, dlg.selectedMonth),
                                  header |-> headerOrderOf(getDaysInMonth(year, month)),
                                  rows |-> excelDataOf(targetStudents, logs, dlg)]>>]

\* the (course, semester) pairs of the export's rosters
CourseSemesters == {<<"BSc", "3">>, <<"BCA", "5">>}

\* the rosters of the export: listed once, R1's Math entry of BSc semester
\* 3 first, the others of any course and semester
ExportRosters ==
    {Map(s, LAMBDA p : Student(p[1], p[2]) @@ [course |-> p[3][1], semester |-> p[3][2]]) :
        s \in {q \in SeqsNoRep(Rolls \X Subjects \X CourseSemesters, MaxRoster) :
                  /\ ListedOnce(q)
                  /\ q # <<>> => q[1] = <<"R1", "Math", <<"BSc", "3">>>>}}

\* the log lists of the export: at most MaxLogs entries of 2025-03-14 and
\* 2025-03-15, one per (date, subject, roll number), listed by date, roll
\* number and subject
ExportLogLists ==
    LET rank(log) == (IF log.date = "2025-03-14" THEN 0 ELSE 4)
                        + (IF log.roll_number = "R1" THEN 0 ELSE 2)
                        + (IF log.subject_name = "Math" THEN 0 ELSE 1)
    IN  {l \in FetchedLogLists({0, 1}) :
            \A i, j \in 1 .. Len(l) : i < j => rank(l[i]) < rank(l[j])}

\* ----------------------------------------------------------- requests
\* the three GET requests of fetchData, in the order they are sent
FetchUrls ==
    <<"/teachers/{id}/students/", "/attendance/teacherwise/",
      "/teachers/me/teacher-subject-ids/">>

\* the first k of them with the header Authorization: `Bearer ${token}`
RequestsUpTo(k, tok) ==
    [i \in 1 .. k |-> [url |-> FetchUrls[i], authorization |-> "Bearer " \o tok]]

\* ------------------------------------------------------------ actions
\* the state after construction on a host whose clock shows `now` and whose
\* localStorage holds `tok` as university_token (Null: no token stored)
InitWith(now, tok) ==
    /\ loading = TRUE
    /\ error = Null
    /\ allStudents = <<>>
    /\ attendanceLogs = <<>>
    /\ subjectsList = <<>>
    /\ selectedDate = now
    /\ apiFeedback = [open |-> FALSE, message |-> <<"">>, severity |-> "success"]
    /\ isEditing = FALSE
    /\ saves = <<>>
    /\ clock = now
    /\ filters = [classFilter |-> "all", courseFilter |-> "all",
                  semesterFilter |-> "all", notMarkedOnly |-> FALSE,
                  searchQuery |-> "",
                  page |-> 0, rowsPerPage |-> 10]
    /\ downloadDialogOpen = FALSE
    /\ dialog = [selectedMonth |-> "2025-03", selectedSubject |-> "",
                 selectedCourse |-> "", selectedSemester |-> "", error |-> Null]
    /\ downloads = <<>>
    /\ dashboard = [loading |-> TRUE, error |-> Null, studentsData |-> <<>>,
                    attendanceLogs |-> <<>>, subjectsList |-> <<>>,
                    selectedSubject |-> "All", selectedCourse |-> "All",
                    selectedSemester |-> "All", showLowAttendance |-> FALSE]
    /\ token = tok
    /\ fetches = <<>>

\* the state after construction in a session that has logged in
InitAt(now) == InitWith(now, "tok")

Init == \E tz \in HostOffsets : InitAt(Now(tz))

\* fetchData with the three requests answered
FetchDataOk(rosters, logLists, subjectLists) ==
    /\ loading
    /\ \E roster \in rosters, logs \in logLists, subjects \in subjectLists :
          /\ allStudents' = roster
          /\ attendanceLogs' = logs
          /\ subjectsList' = subjects
    /\ loading' = FALSE
    /\ fetches' = fetches \o RequestsUpTo(3, token)
    /\ UNCHANGED <<error, selectedDate, apiFeedback, isEditing, saves>>
    /\ UNCHANGED others

\* fetchData with the k-th request answered with an error status: the catch
\* sets the error.  The Authorization header is `Bearer ${token}` whatever
\* localStorage.getItem returned.
FetchDataFail ==
    /\ loading
    /\ \E k \in 1 .. 3 :
          /\ error' = <<"Failed to fetch students", "Failed to fetch attendance logs",
                        "Failed to fetch subjects">>[k]
          /\ fetches' = fetches \o RequestsUpTo(k, token)
    /\ loading' = FALSE
    /\ UNCHANGED <<allStudents, attendanceLogs, subjectsList, selectedDate,
                   apiFeedback, isEditing, saves>>
    /\ UNCHANGED others

\* SimpleCalendar day button -> handleDateSelect: onDateChange(date),
\* setIsEditing(false), setPage(0)
SelectDay ==
    /\ Rendered
    /\ \E d \in CalendarDays :
          LET dayDate == LocalMidnight(d, selectedDate.tz)
              today == Now(selectedDate.tz)
              isFuture == dayDate.time > today.time
          IN  /\ ~isFuture
              /\ selectedDate' = dayDate
    /\ isEditing' = FALSE
    /\ UNCHANGED <<loading, error, allStudents, attendanceLogs, subjectsList,
                   apiFeedback, saves>>
    /\ filters' = [filters EXCEPT !.page = 0]
    /\ UNCHANGED <<clock, downloadDialogOpen, dialog, downloads, dashboard,
                   token, fetches>>

\* SimpleCalendar 'Today' button -> goToToday -> handleDateSelect
GoToToday ==
    /\ Rendered
    /\ selectedDate' = Now(selectedDate.tz)
    /\ isEditing' = FALSE
    /\ UNCHANGED <<loading, error, allStudents, attendanceLogs, subjectsList,
                   apiFeedback, saves>>
    /\ filters' = [filters EXCEPT !.page = 0]
    /\ UNCHANGED <<clock, downloadDialogOpen, dialog, downloads, dashboard,
                   token, fetches>>

\* the 'Edit Past' / 'Done' button, shown for past dates only
ToggleEditing ==
    /\ Rendered
    /\ ~isToday(selectedDate)
    /\ isEditing' = ~isEditing
    /\ UNCHANGED <<loading, error, allStudents, attendanceLogs, subjectsList,
                   selectedDate, apiFeedback, saves>>
    /\ UNCHANGED <<fetches, others>>

\* a toggle of row i of the editable table, which shows the current page of
\* the filtered rows: handleStatusChange(student.id, val)
StatusChange ==
    /\ Rendered
    /\ canEdit
    /\ \E i \in 1 .. Len(paginatedStudents), val \in ToggleValues :
          attendanceLogs' = handleStatusChange(attendanceLogs, allStudents,
                                               selectedDate, paginatedStudents[i].id, val)
    /\ Len(attendanceLogs') <= MaxLogs
    /\ UNCHANGED <<loading, error, allStudents, subjectsList, selectedDate,
                   apiFeedback, isEditing, saves>>
    /\ UNCHANGED <<fetches, others>>

\* the Save button (shown when canEdit) -> handleManualSave -> onSave()
\* (nothing disables the button while a save is in flight; `limit` bounds
\* the clicks of a session)
SaveClick(limit) ==
    /\ Rendered
    /\ canEdit
    /\ Len(saves) < limit
    /\ LET r == StartSave(attendanceLogs, selectedDate, allStudents,
                          subjectsList, apiFeedback)
       IN  /\ saves' = Append(saves, r[1])
           /\ apiFeedback' = r[2]
    /\ UNCHANGED <<loading, error, allStudents, attendanceLogs, subjectsList,
                   selectedDate, isEditing>>
    /\ UNCHANGED <<fetches, others>>

\* the answer to a pending POST /attendance/mark/: 2xx, or non-2xx / no answer
MarkResponse ==
    /\ \E k \in 1 .. Len(saves), ok \in BOOLEAN :
          /\ saves[k].pc = "awaiting"
          /\ LET r == ResumeSave(saves[k], ok, allStudents, subjectsList,
                                 apiFeedback)
             IN  /\ saves' = [saves EXCEPT ![k] = r[1]]
                 /\ apiFeedback' = r[2]
    /\ UNCHANGED <<loading, error, allStudents, attendanceLogs, subjectsList,
                   selectedDate, isEditing>>
    /\ UNCHANGED <<fetches, others>>

\* the Snackbar's onClose (auto-hide after 4 s, or the close button)
CloseFeedback ==
    /\ Rendered
    /\ apiFeedback.open
    /\ apiFeedback' = [apiFeedback EXCEPT !.open = FALSE]
    /\ UNCHANGED <<loading, error, allStudents, attendanceLogs, subjectsList,
                   selectedDate, isEditing, saves>>
    /\ UNCHANGED <<fetches, others>>

\* the host's clock advances by an hour within 2025-03-15 (local time)
Tick ==
    /\ clock.time + 3600000 < LocalMidnight(2, clock.tz).time
    /\ clock' = [clock EXCEPT !.time = @ + 3600000]
    /\ UNCHANGED <<loading, error, allStudents, attendanceLogs, subjectsList,
                   selectedDate, apiFeedback, isEditing, saves>>
    /\ UNCHANGED <<filters, downloadDialogOpen, dialog, downloads, dashboard,
                   token, fetches>>

\* the host's clock reaches the last millisecond of 2025-03-15 (local time)
TickToEndOfDay ==
    /\ clock.time + 3600000 >= LocalMidnight(2, clock.tz).time
    /\ clock.time + 1 < LocalMidnight(2, clock.tz).time
    /\ clock' = [clock EXCEPT !.time = LocalMidnight(2, clock.tz).time - 1]
    /\ UNCHANGED <<loading, error, allStudents, attendanceLogs, subjectsList,
                   selectedDate, apiFeedback, isEditing, saves>>
    /\ UNCHANGED <<filters, downloadDialogOpen, dialog, downloads, dashboard,
                   token, fetches>>

\* the dashboard's fetchData with the three requests answered
DashboardFetchOk(rosters, logLists) ==
    /\ dashboard.loading
    /\ token # Null
    /\ fetches' = fetches \o RequestsUpTo(3, token)
    /\ \E roster \in rosters, logs \in logLists :
          dashboard' = [dashboard EXCEPT
                          !.studentsData = roster,
                          !.attendanceLogs = logs,
                          !.subjectsList = <<[ts_id |-> TsIdOf("Math"), subject_name |-> "Math"],
                                             [ts_id |-> TsIdOf("Physics"), subject_name |-> "Physics"]>>,
                          !.loading = FALSE]
    /\ UNCHANGED <<register, token, clock, filters, downloadDialogOpen, dialog, downloads>>

\* the dashboard's fetchData failing: without a token before any request,
\* otherwise with the k-th request answered with an error status
DashboardFetchFail ==
    /\ dashboard.loading
    /\ IF token = Null
       THEN /\ dashboard' = [dashboard EXCEPT !.error = "No authentication token found.",
                                              !.loading = FALSE]
            /\ fetches' = fetches
       ELSE \E k \in 1 .. 3 :
               \E msg \in <<{"Unauthorized. Please login again.",
                              "Failed to fetch students list"},
                             {"Failed to fetch attendance logs"},
                             {"Failed to fetch subjects"}>>[k] :
                  /\ dashboard' = [dashboard EXCEPT !.error = msg, !.loading = FALSE]
                  /\ fetches' = fetches \o RequestsUpTo(k, token)
    /\ UNCHANGED <<register, token, clock, filters, downloadDialogOpen, dialog, downloads>>

\* StudentAttendanceList: the subject menu -> setSelectedSubject
SetSelectedSubject ==
    /\ DashboardRendered
    /\ \E v \in {"All"} \cup {dashboard.subjectsList[i].subject_name :
                                 i \in 1 .. Len(dashboard.subjectsList)} :
          dashboard' = [dashboard EXCEPT !.selectedSubject = v]
    /\ UNCHANGED <<register, token, fetches, clock, filters, downloadDialogOpen, dialog, downloads>>

\* the course menu -> setSelectedCourse
SetSelectedCourse ==
    /\ DashboardRendered
    /\ \E v \in {"All"} \cup uniqueCourses :
          dashboard' = [dashboard EXCEPT !.selectedCourse = v]
    /\ UNCHANGED <<register, token, fetches, clock, filters, downloadDialogOpen, dialog, downloads>>

\* the semester menu -> setSelectedSemester
SetSelectedSemester ==
    /\ DashboardRendered
    /\ \E v \in {"All"} \cup uniqueSemesters :
          dashboard' = [dashboard EXCEPT !.selectedSemester = v]
    /\ UNCHANGED <<register, token, fetches, clock, filters, downloadDialogOpen, dialog, downloads>>

\* the 'low attendance' switch -> setShowLowAttendance(e.target.checked)
SetShowLowAttendance ==
    /\ DashboardRendered
    /\ dashboard' = [dashboard EXCEPT !.showLowAttendance = ~@]
    /\ UNCHANGED <<register, token, fetches, clock, filters, downloadDialogOpen, dialog, downloads>>

\* the subject, course and semester menus of AttendanceTable
SetClassFilter ==
    /\ Rendered
    /\ \E v \in {"all"} \cup {dailyData[i].class : i \in 1 .. Len(dailyData)} :
          filters' = [filters EXCEPT !.classFilter = v]
    /\ UNCHANGED <<register, token, fetches, clock, downloadDialogOpen, dialog, downloads, dashboard>>

SetCourseFilter ==
    /\ Rendered
    /\ \E v \in {"all"} \cup {dailyData[i].course : i \in 1 .. Len(dailyData)} :
          filters' = [filters EXCEPT !.courseFilter = v]
    /\ UNCHANGED <<register, token, fetches, clock, downloadDialogOpen, dialog, downloads, dashboard>>

SetSemesterFilter ==
    /\ Rendered
    /\ \E v \in {"all"} \cup {dailyData[i].semester : i \in 1 .. Len(dailyData)} :
          filters' = [filters EXCEPT !.semesterFilter = v]
    /\ UNCHANGED <<register, token, fetches, clock, downloadDialogOpen, dialog, downloads, dashboard>>

\* the 'not marked' checkbox -> setNotMarkedOnly(e.target.checked)
SetNotMarkedOnly ==
    /\ Rendered
    /\ filters' = [filters EXCEPT !.notMarkedOnly = ~@]
    /\ UNCHANGED <<register, token, fetches, clock, downloadDialogOpen, dialog, downloads, dashboard>>

\* the search box -> setSearchQuery(e.target.value)
SetSearchQuery ==
    /\ Rendered
    /\ \E q \in SearchTexts : filters' = [filters EXCEPT !.searchQuery = q]
    /\ UNCHANGED <<register, token, fetches, clock, downloadDialogOpen, dialog, downloads, dashboard>>

\* the download button of the table -> setDownloadDialogOpen(true)
OpenDownload ==
    /\ Rendered
    /\ ~downloadDialogOpen
    /\ downloadDialogOpen' = TRUE
    /\ UNCHANGED <<register, token, fetches, clock, filters, dialog, downloads, dashboard>>

\* Cancel, Escape or a click outside the dialog -> onClose()
CancelDownload ==
    /\ Rendered
    /\ downloadDialogOpen
    /\ downloadDialogOpen' = FALSE
    /\ UNCHANGED <<register, token, fetches, clock, filters, dialog, downloads, dashboard>>

\* the month input set to one of `months`
SetSelectedMonthIn(months) ==
    /\ Rendered
    /\ downloadDialogOpen
    /\ \E m \in months : dialog' = [dialog EXCEPT !.selectedMonth = m]
    /\ UNCHANGED <<register, token, fetches, clock, filters, downloadDialogOpen, downloads, dashboard>>

\* the month input -> setSelectedMonth(e.target.value)
SetSelectedMonth == SetSelectedMonthIn(ExportMonths)

\* the dialog's subject menu (the subjects prop) -> setSelectedSubject
DialogSetSelectedSubject ==
    /\ Rendered
    /\ downloadDialogOpen
    /\ \E i \in 1 .. Len(subjectsList) :
          dialog' = [dialog EXCEPT !.selectedSubject = subjectsList[i].subject_name]
    /\ UNCHANGED <<register, token, fetches, clock, filters, downloadDialogOpen, downloads, dashboard>>

\* the dialog's course menu (the courses of the roster) -> setSelectedCourse
DialogSetSelectedCourse ==
    /\ Rendered
    /\ downloadDialogOpen
    /\ \E i \in 1 .. Len(allStudents) :
          dialog' = [dialog EXCEPT !.selectedCourse = allStudents[i].course]
    /\ UNCHANGED <<register, token, fetches, clock, filters, downloadDialogOpen, downloads, dashboard>>

\* the dialog's semester menu (the semesters of the roster) -> setSelectedSemester
DialogSetSelectedSemester ==
    /\ Rendered
    /\ downloadDialogOpen
    /\ \E i \in 1 .. Len(allStudents) :
          dialog' = [dialog EXCEPT !.selectedSemester = allStudents[i].semester]
    /\ UNCHANGED <<register, token, fetches, clock, filters, downloadDialogOpen, downloads, dashboard>>

\* Download Excel -> handleDownload: the error is set, and with a file
\* written the dialog is closed
HandleDownload ==
    /\ Rendered
    /\ downloadDialogOpen
    /\ Len(downloads) < MaxDownloads
    /\ LET r == handleDownloadOf(allStudents, attendanceLogs, dialog)
       IN  /\ dialog' = [dialog EXCEPT !.error = r.error]
           /\ downloads' = downloads \o r.written
           /\ downloadDialogOpen' = (r.written = <<>>)
    /\ UNCHANGED <<register, token, fetches, clock, filters, dashboard>>

\* TablePagination's previous and next buttons -> handleChangePage: the
\* previous button is enabled off the first page, the next button while
\* rows follow the current page
ChangePage ==
    /\ Rendered
    /\ \E newPage \in {filters.page - 1, filters.page + 1} :
          /\ newPage >= 0
          /\ newPage > filters.page => newPage * filters.rowsPerPage < Len(filteredRows)
          /\ filters' = [filters EXCEPT !.page = newPage]
    /\ UNCHANGED <<register, token, fetches, clock, downloadDialogOpen, dialog, downloads, dashboard>>

\* TablePagination's rows-per-page menu -> handleChangeRowsPerPage
ChangeRowsPerPage ==
    /\ Rendered
    /\ \E n \in RowsPerPageOptions :
          filters' = [filters EXCEPT !.rowsPerPage = n, !.page = 0]
    /\ UNCHANGED <<register, token, fetches, clock, downloadDialogOpen, dialog, downloads, dashboard>>

\* ----------------------------------------------------- specifications
\* The register with the roster and the logs of two days as the backend's
\* answer, the calendar and the local edits.
FetchForRegister ==
    FetchDataOk(Rosters, FetchedLogLists({0, 1}),
                {<<[ts_id |-> TsIdOf("Math"), subject_name |-> "Math"],
                   [ts_id |-> TsIdOf("Physics"), subject_name |-> "Physics"]>>})

NextRegister ==
    \/ FetchForRegister
    \/ FetchDataFail
    \/ SelectDay
    \/ GoToToday
    \/ ToggleEditing
    \/ StatusChange

Spec == Init /\ [][NextRegister]_vars

\* The register with log lists in which an entry may lack its status field
\* (Null stands for undefined, as for a missing stamp).
FetchForMalformed ==
    FetchDataOk(Rosters, FetchedLogListsWith({0, 1}, BackendStatuses \cup {Null}),
                {<<[ts_id |-> TsIdOf("Math"), subject_name |-> "Math"],
                   [ts_id |-> TsIdOf("Physics"), subject_name |-> "Physics"]>>})

NextMalformed ==
    \/ FetchForMalformed
    \/ FetchDataFail
    \/ SelectDay
    \/ GoToToday
    \/ ToggleEditing
    \/ StatusChange

SpecMalformed == Init /\ [][NextMalformed]_vars

\* The save protocol: every roster in listing order, every subject mapping,
\* as the backend's log list none, or an entry of 2025-03-14 followed by at
\* most MaxLogs entries of 2025-03-15, the Save button (at most MaxSaves
\* clicks), the answers to the write requests and the closing of the message.
FetchForSave ==
    LET earlier == <<FetchedLog(0, "Math", "R1", "Present", TRUE)>>
    IN  FetchDataOk({r \in Rosters : InListingOrder(r)},
                    {<<>>} \cup {earlier \o today : today \in FetchedLogLists({1})},
                    SubjectLists)

NextSave ==
    \/ FetchForSave
    \/ FetchDataFail
    \/ SaveClick(MaxSaves)
    \/ MarkResponse
    \/ CloseFeedback

SpecSave == Init /\ [][NextSave]_vars

\* The save protocol with one more click of Save than SpecSave allows.
NextOverlap ==
    \/ FetchForSave
    \/ FetchDataFail
    \/ SaveClick(MaxSaves + 1)
    \/ MarkResponse
    \/ CloseFeedback

SpecOverlap == Init /\ [][NextOverlap]_vars

\* The teacher dashboard: its fetch and its four filters.
DashboardFetchForStats == DashboardFetchOk(DashboardRosters, DashboardLogLists)

NextDashboard ==
    \/ DashboardFetchForStats
    \/ DashboardFetchFail
    \/ SetSelectedSubject
    \/ SetSelectedCourse
    \/ SetSelectedSemester
    \/ SetShowLowAttendance

SpecDashboard == Init /\ [][NextDashboard]_vars

\* The filters of a session in which the teacher opens the attendance
\* register or the dashboard (the router mounts one of the two): the
\* register with rosters that carry course and semester and log lists of
\* 'Present' entries of 2025-03-15, the dashboard with its rosters.
FetchForFilters ==
    /\ dashboard.loading
    /\ FetchDataOk(TableRosters,
                   {l \in FetchedLogListsWith({1}, {"Present"}) :
                       ListedOnce(Map(l, LAMBDA log : <<log.roll_number, log.subject_name>>))},
                   {<<[ts_id |-> TsIdOf("Math"), subject_name |-> "Math"],
                      [ts_id |-> TsIdOf("Physics"), subject_name |-> "Physics"]>>})

DashboardFetchForFilters ==
    /\ loading
    /\ DashboardFetchOk(DashboardRosters,
                        {<<FetchedLog(1, "Math", "R1", "Present", TRUE)>>})

NextFiltering ==
    \/ FetchForFilters
    \/ SetClassFilter
    \/ SetCourseFilter
    \/ SetSemesterFilter
    \/ SetNotMarkedOnly
    \/ SetSearchQuery
    \/ DashboardFetchForFilters
    \/ SetSelectedSubject
    \/ SetSelectedCourse
    \/ SetSelectedSemester
    \/ SetShowLowAttendance

SpecFiltering == Init /\ [][NextFiltering]_vars

\* The date keys: the register and the dashboard mounted at local midnight
\* or at 11pm of 2025-03-15 on a host of any timezone, and the clock running
\* to the end of that day.
InitClock ==
    \E tz \in UtcOffsets, h \in {0, 23} :
       InitAt([time |-> LocalMidnight(1, tz).time + h * 3600000, tz |-> tz])

NextClock ==
    \/ Tick
    \/ TickToEndOfDay

SpecClock == InitClock /\ [][NextClock]_vars


\* The export dialog: the register loaded with a roster that carries course
\* and semester, the dialog opened, its menus set, Download Excel and Cancel.
FetchForExport ==
    FetchDataOk(ExportRosters,
                {<<FetchedLog(1, "Math", "R1", "Present", TRUE)>>},
                {<<[ts_id |-> TsIdOf("Math"), subject_name |-> "Math"],
                   [ts_id |-> TsIdOf("Physics"), subject_name |-> "Physics"]>>})

NextExport ==
    \/ FetchForExport
    \/ OpenDownload
    \/ CancelDownload
    \/ DialogSetSelectedSubject
    \/ DialogSetSelectedCourse
    \/ DialogSetSelectedSemester
    \/ HandleDownload

SpecExport == Init /\ [][NextExport]_vars

\* The exported matrix as a function of the roster, the logs and the
\* selection: the register loaded with any roster and any log list of the
\* export, the dialog open with Math, BSc and semester 3 selected, then the
\* month set and Download Excel pressed.
InitMatrix ==
    \E now \in {Now(tz) : tz \in HostOffsets} :
       /\ loading = FALSE
       /\ error = Null
       /\ allStudents \in ExportRosters \ {<<>>}
       /\ attendanceLogs \in ExportLogLists
       /\ subjectsList = <<[ts_id |-> TsIdOf("Math"), subject_name |-> "Math"],
                           [ts_id |-> TsIdOf("Physics"), subject_name |-> "Physics"]>>
       /\ selectedDate = now
       /\ apiFeedback = [open |-> FALSE, message |-> <<"">>, severity |-> "success"]
       /\ isEditing = FALSE
       /\ saves = <<>>
       /\ clock = now
       /\ filters = [classFilter |-> "all", courseFilter |-> "all",
                     semesterFilter |-> "all", notMarkedOnly |-> FALSE,
                     searchQuery |-> "",
                     page |-> 0, rowsPerPage |-> 10]
       /\ downloadDialogOpen = TRUE
       /\ dialog = [selectedMonth |-> "2025-03", selectedSubject |-> "Math",
                    selectedCourse |-> "BSc", selectedSemester |-> "3",
                    error |-> Null]
       /\ downloads = <<>>
       /\ dashboard = [loading |-> TRUE, error |-> Null, studentsData |-> <<>>,
                       attendanceLogs |-> <<>>, subjectsList |-> <<>>,
                       selectedSubject |-> "All", selectedCourse |-> "All",
                       selectedSemester |-> "All", showLowAttendance |-> FALSE]
       /\ token = "tok"
       /\ fetches = <<>>

NextMatrix ==
    \/ SetSelectedMonth
    \/ HandleDownload

SpecMatrix == InitMatrix /\ [][NextMatrix]_vars

\* The sheet's layout and the file's name as functions of the month and the
\* subject: the register loaded with R1 enrolled in subjects of several
\* names, the dialog open with BSc and semester 3 selected, then the month
\* and the subject set and Download Excel pressed.
SheetMonths == {"2025-02", "2024-02", "2025-04", "2025-03"}
SheetSubjects == {"Math", "Data Science", "C++ Lab", "CS-101"}

InitSheet ==
    \E now \in {Now(tz) : tz \in HostOffsets} :
       /\ loading = FALSE
       /\ error = Null
       /\ allStudents \in
             {Map(q, LAMBDA subject :
                        Student("R1", subject) @@ [course |-> "BSc", semester |-> "3"]) :
                 q \in SeqsNoRep(SheetSubjects, MaxRoster) \ {<<>>}}
       /\ attendanceLogs \in
             {<<>>} \cup {<<FetchedLog(0, s, "R1", "Present", TRUE)>> : s \in SheetSubjects}
       /\ subjectsList \in
             {Map(q, LAMBDA subject : [ts_id |-> TsIdOf(subject), subject_name |-> subject]) :
                 q \in {<<"Math", "Data Science", "C++ Lab", "CS-101">>}}
       /\ selectedDate = now
       /\ apiFeedback = [open |-> FALSE, message |-> <<"">>, severity |-> "success"]
       /\ isEditing = FALSE
       /\ saves = <<>>
       /\ clock = now
       /\ filters = [classFilter |-> "all", courseFilter |-> "all",
                     semesterFilter |-> "all", notMarkedOnly |-> FALSE,
                     searchQuery |-> "",
                     page |-> 0, rowsPerPage |-> 10]
       /\ downloadDialogOpen = TRUE
       /\ dialog = [selectedMonth |-> "2025-03", selectedSubject |-> "",
                    selectedCourse |-> "BSc", selectedSemester |-> "3",
                    error |-> Null]
       /\ downloads = <<>>
       /\ dashboard = [loading |-> TRUE, error |-> Null, studentsData |-> <<>>,
                       attendanceLogs |-> <<>>, subjectsList |-> <<>>,
                       selectedSubject |-> "All", selectedCourse |-> "All",
                       selectedSemester |-> "All", showLowAttendance |-> FALSE]
       /\ token = "tok"
       /\ fetches = <<>>

SetSheetMonth == SetSelectedMonthIn(SheetMonths)

NextSheet ==
    \/ SetSheetMonth
    \/ DialogSetSelectedSubject
    \/ HandleDownload

SpecSheet == InitSheet /\ [][NextSheet]_vars

\* The two views opened with or without a stored token: the router mounts
\* the register or the dashboard, the requests are answered or fail, and the
\* backend answers a request that carries no valid token with an error
\* status.
InitToken == \E tz \in HostOffsets, tok \in {Null, "tok"} : InitWith(Now(tz), tok)

FetchForToken ==
    /\ token # Null
    /\ FetchForFilters

NextToken ==
    \/ FetchForToken
    \/ FetchDataFail
    \/ DashboardFetchForFilters
    \/ DashboardFetchFail
    \/ SetClassFilter
    \/ SetSelectedSubject

SpecToken == InitToken /\ [][NextToken]_vars

\* Edits and date changes while a save is in flight: a roster of R1 in Math
\* and R2 in Physics, the full subject mapping, as the backend's log list
\* none or a 'Present' entry of 2025-03-15 for each of the two, the calendar,
\* the toggles, the Save button (at most MaxSaves clicks) and the answers to
\* the write requests.
FetchForConcurrent ==
    FetchDataOk({<<Student("R1", "Math"), Student("R2", "Physics")>>},
                {<<>>,
                 <<FetchedLog(1, "Math", "R1", "Present", TRUE),
                   FetchedLog(1, "Physics", "R2", "Present", TRUE)>>},
                {<<[ts_id |-> TsIdOf("Math"), subject_name |-> "Math"],
                   [ts_id |-> TsIdOf("Physics"), subject_name |-> "Physics"]>>})

NextConcurrent ==
    \/ FetchForConcurrent
    \/ SelectDay
    \/ StatusChange
    \/ SaveClick(MaxSaves)
    \/ MarkResponse

SpecConcurrent == Init /\ [][NextConcurrent]_vars

\* Edit mode and the calendar: a roster of six students of Math (two pages
\* at five rows per page), a log list of MaxLogs 'Present' entries (the last
\* roster entry's of 2025-03-15 and of 2025-03-14, the others of 2025-03-13,
\* before the days of the calendar), the calendar, the 'Edit Past' button,
\* the toggles, the pagination, the Save button (at most MaxSaves clicks)
\* and the answers to the write requests.
EditModeRolls == <<"R1", "R2", "R3", "R4", "R5", "R6">>

EditModeRoster == Map(EditModeRolls, LAMBDA roll : Student(roll, "Math"))

EditModeLogs ==
    [i \in 1 .. MaxLogs |->
        IF i <= 2
        THEN FetchedLog(i % 2, "Math", "R6", "Present", TRUE)
        ELSE FetchedLog(-1, "Math", EditModeRolls[((i - 3) % Len(EditModeRolls)) + 1],
                        "Present", TRUE)]

FetchForEditMode ==
    FetchDataOk({EditModeRoster}, {EditModeLogs},
                {<<[ts_id |-> TsIdOf("Math"), subject_name |-> "Math"]>>})

NextEditMode ==
    \/ FetchForEditMode
    \/ SelectDay
    \/ GoToToday
    \/ ToggleEditing
    \/ StatusChange
    \/ ChangePage
    \/ ChangeRowsPerPage
    \/ SaveClick(MaxSaves)
    \/ MarkResponse

SpecEditMode == Init /\ [][NextEditMode]_vars

\* The marks of the register under local edits: every roster, as the
\* backend's log list 'Present' entries of 2025-03-15, the calendar, the
\* 'Edit Past' button and the toggles.
FetchForMarks ==
    FetchDataOk(Rosters, FetchedLogListsWith({1}, {"Present"}),
                {<<[ts_id |-> TsIdOf("Math"), subject_name |-> "Math"],
                   [ts_id |-> TsIdOf("Physics"), subject_name |-> "Physics"]>>})

NextMarks ==
    \/ FetchForMarks
    \/ SelectDay
    \/ ToggleEditing
    \/ StatusChange

SpecMarks == Init /\ [][NextMarks]_vars

\* The pages of the attendance table: a roster of six rows (five of Math in
\* BSc, the last of Physics in BCA; two pages at five rows per page), the
\* last row marked 'Present' on 2025-03-15, the search box, the filters,
\* the 'not marked' checkbox, the pagination and the calendar.
PagingRoster ==
    <<TableStudent("R1", "Math", "BSc"), TableStudent("R2", "Math", "BSc"),
      TableStudent("R3", "Math", "BSc"), TableStudent("R4", "Math", "BSc"),
      TableStudent("R5", "Math", "BSc"), TableStudent("R6", "Physics", "BCA")>>

FetchForPaging ==
    FetchDataOk({PagingRoster},
                {<<FetchedLog(1, "Physics", "R6", "Present", TRUE)>>},
                {<<[ts_id |-> TsIdOf("Math"), subject_name |-> "Math"],
                   [ts_id |-> TsIdOf("Physics"), subject_name |-> "Physics"]>>})

NextPaging ==
    \/ FetchForPaging
    \/ SetSearchQuery
    \/ SetClassFilter
    \/ SetCourseFilter
    \/ SetSemesterFilter
    \/ SetNotMarkedOnly
    \/ ChangePage
    \/ ChangeRowsPerPage
    \/ SelectDay

SpecPaging == Init /\ [][NextPaging]_vars

\* The export over log lists that may hold several entries of one (date,
\* subject, roll number): every roster of the export, every list of at most
\* MaxLogs Math entries of 2025-03-14 and 2025-03-15, the dialog open with
\* Math, BSc and semester 3 selected, the month input and the Download
\* button.
RepeatingLogLists ==
    LET All == {FetchedLog(d, "Math", r, st, TRUE) :
                   d \in {0, 1}, r \in Rolls, st \in BackendStatuses}
    IN  UNION {[1 .. n -> All] : n \in 0 .. MaxLogs}

InitRepeating ==
    \E now \in {Now(tz) : tz \in HostOffsets} :
       /\ loading = FALSE
       /\ error = Null
       /\ allStudents \in ExportRosters \ {<<>>}
       /\ attendanceLogs \in RepeatingLogLists
       /\ subjectsList = <<[ts_id |-> TsIdOf("Math"), subject_name |-> "Math"],
                           [ts_id |-> TsIdOf("Physics"), subject_name |-> "Physics"]>>
       /\ selectedDate = now
       /\ apiFeedback = [open |-> FALSE, message |-> <<"">>, severity |-> "success"]
       /\ isEditing = FALSE
       /\ saves = <<>>
       /\ clock = now
       /\ filters = [classFilter |-> "all", courseFilter |-> "all",
                     semesterFilter |-> "all", notMarkedOnly |-> FALSE,
                     searchQuery |-> "",
                     page |-> 0, rowsPerPage |-> 10]
       /\ downloadDialogOpen = TRUE
       /\ dialog = [selectedMonth |-> "2025-03", selectedSubject |-> "Math",
                    selectedCourse |-> "BSc", selectedSemester |-> "3",
                    error |-> Null]
       /\ downloads = <<>>
       /\ dashboard = [loading |-> TRUE, error |-> Null, studentsData |-> <<>>,
                       attendanceLogs |-> <<>>, subjectsList |-> <<>>,
                       selectedSubject |-> "All", selectedCourse |-> "All",
                       selectedSemester |-> "All", showLowAttendance |-> FALSE]
       /\ token = "tok"
       /\ fetches = <<>>

NextRepeating ==
    \/ SetSelectedMonth
    \/ HandleDownload

SpecRepeating == InitRepeating /\ [][NextRepeating]_vars

\* ---------------------------------------------------------------- claims
UniqueKeys(logs) ==
    \A i, j \in 1 .. Len(logs) : i # j => LogKey(logs[i]) # LogKey(logs[j])

\* C1: the log store never holds two entries for one (date, subject, roll
\* number) tuple, whatever local edits were made; and handleLocalUpdate
\* applied twice in a row for the same student and date with 'present'
\* leaves exactly one entry for the tuple it writes, with status 'Present'.
C1_OneEntryPerTuple ==
    /\ UniqueKeys(attendanceLogs)
    /\ Rendered =>
         \A i \in 1 .. Len(allStudents) :
            LET once == handleLocalUpdate(attendanceLogs, allStudents,
                                          selectedDate, allStudents[i].id, "present")
                twice == handleLocalUpdate(once, allStudents, selectedDate,
                                           allStudents[i].id, "present")
                key == LogKey(once[Len(once)])
                same == {k \in 1 .. Len(twice) : LogKey(twice[k]) = key}
            IN  /\ UniqueKeys(once)
                /\ UniqueKeys(twice)
                /\ key[1] = formatDateKey(selectedDate)
                /\ key[3] = allStudents[i].id
                /\ Cardinality(same) = 1
                /\ \A k \in same : twice[k].status = "Present"

\* a store of two entries, one of them written by a local edit as 'Present'
C1_Witness ==
    /\ Rendered
    /\ Len(attendanceLogs) >= 2
    /\ \E k \in 1 .. Len(attendanceLogs) :
          /\ attendanceLogs[k].updated_at = "now"
          /\ attendanceLogs[k].status = "Present"

\* C2: a toggle on the table row of roster entry (r, s) makes the daily view
\* row (r, s) show the new status and changes no row of another subject, for
\* every roster in which the pair (roll number, subject) is unique.
C2_EditHitsItsOwnRow ==
    Rendered =>
      \A i \in 1 .. Len(dailyData), val \in {"present", "absent"} :
         LET edited == handleStatusChange(attendanceLogs, allStudents,
                                          selectedDate, dailyData[i].id, val)
             view == dailyDataOf(allStudents, edited, selectedDate)
         IN  /\ view[i].status = val
             /\ \A j \in 1 .. Len(dailyData) :
                   dailyData[j].class # dailyData[i].class
                       => view[j] = dailyData[j]

\* C3: the daily view has one row per roster entry, in roster order; a row
\* shows the lowercased status of the log entry of (selected date key, the
\* row's subject, the row's roll number) when there is one, and otherwise a
\* null status and "-" as last-updated.
C3_DailyView ==
    Rendered =>
      /\ Len(dailyData) = Len(allStudents)
      /\ \A i \in 1 .. Len(allStudents) :
            LET row == dailyData[i]
                student == allStudents[i]
                matches == {k \in 1 .. Len(attendanceLogs) :
                               /\ attendanceLogs[k].date = formatDateKey(selectedDate)
                               /\ attendanceLogs[k].subject_name = student.class
                               /\ attendanceLogs[k].roll_number = student.id}
            IN  /\ row.id = student.id
                /\ row.class = student.class
                /\ row.name = student.name
                /\ matches = {} => row.status = Null /\ row.lastUpdated = <<"-">>
                /\ matches # {} =>
                      \E k \in matches :
                         \/ attendanceLogs[k].status = "Present" /\ row.status = "present"
                         \/ attendanceLogs[k].status = "Absent" /\ row.status = "absent"

\* a view with a marked row and a row that is not marked
C3_Witness ==
    /\ Rendered
    /\ \E i, j \in 1 .. Len(dailyData) :
          /\ dailyData[i].status = "present"
          /\ dailyData[j].status = Null
          /\ dailyData[j].lastUpdated = <<"-">>

\* --- the save protocol
\* the key of the selected date and the day's logs in the store
SelectedKey == formatDateKey(selectedDate)

DayLogs == {m \in 1 .. Len(attendanceLogs) : attendanceLogs[m].date = SelectedKey}

DaySubjects == {attendanceLogs[m].subject_name : m \in DayLogs}

Resolvable(subject) ==
    \E m \in 1 .. Len(subjectsList) : subjectsList[m].subject_name = subject

Answered(save, outcome) ==
    {i \in 1 .. Len(save.requests) : save.requests[i].outcome = outcome}

FailedSubjects(save) == {save.requests[i].subject : i \in Answered(save, "failed")}

\* a message on screen that names a failed subject / the success count
ShowsErrorFor(feedback, subject) ==
    feedback.open /\ feedback.severity = "error" /\ subject \in Range(feedback.message)

ShowsSavedCount(feedback, n) ==
    /\ feedback.open
    /\ feedback.severity = "success"
    /\ feedback.message = <<"Attendance saved for ", NumStr(n), " subjects!">>

\* C4: a save sends one write request, and only one, for every subject that has
\* a log on the selected date and resolves in the subject mapping, whatever the
\* answers to its other requests and whether or not other subjects of the day
\* are unresolvable; it is always either waiting for the answer to its last
\* request or done, with every request answered.
C4_EachResolvableSubjectOnce ==
    \A k \in 1 .. Len(saves) :
       LET save == saves[k]
           sent == [i \in 1 .. Len(save.requests) |-> save.requests[i].subject]
           expected == {s \in DaySubjects : Resolvable(s)}
       IN  /\ \A i, j \in 1 .. Len(sent) : i # j => sent[i] # sent[j]
           /\ Range(sent) \subseteq expected
           /\ save.pc \in {"awaiting", "done"}
           /\ save.pc = "done" =>
                 /\ Range(sent) = expected
                 /\ Answered(save, "pending") = {}
           /\ save.pc = "awaiting" =>
                 /\ Len(save.requests) >= 1
                 /\ Answered(save, "pending") = {Len(save.requests)}

\* a finished save whose first write failed and whose second was still sent
C4_Witness ==
    \E k \in 1 .. Len(saves) :
       /\ saves[k].pc = "done"
       /\ Len(saves[k].requests) = 2
       /\ saves[k].requests[1].outcome = "failed"
       /\ saves[k].requests[2].outcome = "ok"

\* C5: when a save ends with a failed and a successful write, the message on
\* screen shows the success count and an error for each failed subject.
C5_ReportKeepsEveryOutcome ==
    [][\A k \in 1 .. Len(saves) :
          (saves[k].pc = "awaiting" /\ saves'[k].pc = "done"
           /\ FailedSubjects(saves'[k]) # {}
           /\ Answered(saves'[k], "ok") # {})
          => /\ ShowsSavedCount(apiFeedback', Cardinality(Answered(saves'[k], "ok")))
             /\ \A f \in FailedSubjects(saves'[k]) : ShowsErrorFor(apiFeedback', f)]_vars

\* C6 as claimed: a finished save has reported a failure for each subject of
\* the day that does not resolve in the subject mapping (in any of the
\* messages it set, shown or overwritten).
C6_UnresolvableReportedAsFailure ==
    \A k \in 1 .. Len(saves) :
       saves[k].pc = "done" =>
          \A u \in {s \in DaySubjects : ~Resolvable(s)} :
             \E i \in 1 .. Len(saves[k].reported) :
                /\ saves[k].reported[i].severity = "error"
                /\ u \in Range(saves[k].reported[i].message)

\* C6 as amended: a save skips a subject that does not resolve silently (no
\* request, no message names it) and runs to its end; its error messages are
\* those of its failed writes, successCount is the number of its successful
\* writes, and the success message with that count is the last it sets when
\* the count is positive (none when it is 0).
C6_UnresolvableSkippedSilently ==
    \A k \in 1 .. Len(saves) :
       LET save == saves[k]
           unresolvable == {s \in DaySubjects : ~Resolvable(s)}
           oks == Cardinality(Answered(save, "ok"))
           n == Len(save.reported)
       IN  /\ \A u \in unresolvable :
                /\ \A i \in 1 .. Len(save.requests) : save.requests[i].subject # u
                /\ \A i \in 1 .. n : u \notin Range(save.reported[i].message)
           /\ save.successCount = oks
           /\ \A i \in 1 .. n :
                 save.reported[i].severity = "error" =>
                    \E f \in FailedSubjects(save) : f \in Range(save.reported[i].message)
           /\ save.pc = "done" =>
                 /\ oks > 0 => n > 0 /\ ShowsSavedCount(save.reported[n], oks)
                 /\ oks = 0 => \A i \in 1 .. n : save.reported[i].severity # "success"

\* two subjects on the day, one unresolvable, the other saved: the message on
\* screen is the success message for 1 subject and no failure was reported
C6_Witness ==
    \E k \in 1 .. Len(saves) :
       /\ saves[k].pc = "done"
       /\ Len(saves[k].distinctSubjects) = 2
       /\ \E u \in DaySubjects : ~Resolvable(u)
       /\ saves[k].successCount = 1
       /\ Len(saves[k].reported) = 1
       /\ ShowsSavedCount(apiFeedback, 1)

\* C7: at most one save is in flight at any time.
C7_OneSaveInFlight ==
    Cardinality({k \in 1 .. Len(saves) : saves[k].pc = "awaiting"}) <= 1

\* C8: the request of a save for subject S carries S's ts_id, the selected
\* date key, as `present` the internalId of the roster entry of every roll
\* number with a 'Present' log of (date, S), one per such log and none for a
\* roll number outside the roster, as `absent` the same for 'Absent' logs, and
\* no id in both lists.
C8_Payload ==
    \A k \in 1 .. Len(saves) :
       \A i \in 1 .. Len(saves[k].requests) :
          LET subject == saves[k].requests[i].subject
              payload == saves[k].requests[i].payload
              enrolled == {allStudents[j].id : j \in 1 .. Len(allStudents)}
              marked == {m \in DayLogs : /\ attendanceLogs[m].subject_name = subject
                                         /\ attendanceLogs[m].roll_number \in enrolled}
              present == {m \in marked : attendanceLogs[m].status = "Present"}
              absent == {m \in marked : attendanceLogs[m].status = "Absent"}
              idsOf(roll) ==
                  {allStudents[j].internalId :
                      j \in {j \in 1 .. Len(allStudents) : allStudents[j].id = roll}}
          IN  /\ \E m \in 1 .. Len(subjectsList) :
                    /\ subjectsList[m].subject_name = subject
                    /\ subjectsList[m].ts_id = payload.ts_id
              /\ payload.attendance_date = SelectedKey
              /\ Range(payload.present) =
                    UNION {idsOf(attendanceLogs[m].roll_number) : m \in present}
              /\ Len(payload.present) = Cardinality(present)
              /\ Range(payload.absent) =
                    UNION {idsOf(attendanceLogs[m].roll_number) : m \in absent}
              /\ Len(payload.absent) = Cardinality(absent)
              /\ Range(payload.present) \cap Range(payload.absent) = {}

\* a request with a present and an absent student
C8_Witness ==
    \E k \in 1 .. Len(saves) :
       \E i \in 1 .. Len(saves[k].requests) :
          /\ Len(saves[k].requests[i].payload.present) = 1
          /\ Len(saves[k].requests[i].payload.absent) = 1

\* C9: a click on Save while the store holds no entry for the selected date
\* sends no request and shows the info message 'No attendance data to save.'.
C9_NothingToSave ==
    [][(Len(saves') = Len(saves) + 1 /\ DayLogs = {})
       => /\ saves'[Len(saves')].pc = "done"
          /\ saves'[Len(saves')].requests = <<>>
          /\ apiFeedback'.open
          /\ apiFeedback'.severity = "info"
          /\ apiFeedback'.message = <<"No attendance data to save.">>]_vars

\* the store holds a log of another day only, and a save has ended with the
\* info message and no request
C9_Witness ==
    /\ attendanceLogs # <<>>
    /\ DayLogs = {}
    /\ \E k \in 1 .. Len(saves) :
          saves[k].pc = "done" /\ saves[k].requests = <<>>
    /\ apiFeedback.open
    /\ apiFeedback.severity = "info"

\* C10: the step that ends a save all of whose write requests failed leaves
\* an error message on screen, changes neither the log store, the roster nor
\* the selected date (the day's logs are those the save started with) and
\* keeps the view rendered.
C10_AllFailed ==
    [][\A k \in 1 .. Len(saves) :
          (saves[k].pc = "awaiting" /\ saves'[k].pc = "done"
           /\ Answered(saves'[k], "ok") = {})
          => /\ apiFeedback'.open
             /\ apiFeedback'.severity = "error"
             /\ attendanceLogs' = attendanceLogs
             /\ allStudents' = allStudents
             /\ selectedDate' = selectedDate
             /\ LogsOfDate(attendanceLogs', saves'[k].dateKey) = saves'[k].logsToSave
             /\ ~loading' /\ error' = Null]_vars

\* a save has ended with both of its writes failed and the error on screen
C10_Witness ==
    \E k \in 1 .. Len(saves) :
       /\ saves[k].pc = "done"
       /\ Len(saves[k].requests) = 2
       /\ Answered(saves[k], "failed") = {1, 2}
       /\ apiFeedback.open
       /\ apiFeedback.severity = "error"

\* --- date keys
\* C11: on a host of any timezone offset from UTC-12 to UTC+14 and at any
\* time of 2025-03-15 local time (local midnight and 11pm included), the date
\* key of the register's selected date (formatDateKey) and the dashboard's
\* key of today are both '2025-03-15'.
C11_LocalDateKey ==
    /\ LocalMidnight(1, clock.tz).time <= clock.time
    /\ clock.time < LocalMidnight(2, clock.tz).time
    /\ formatDateKey(clock) = "2025-03-15"
    /\ formatDateKey(selectedDate) = "2025-03-15"
    /\ targetDate(clock) = "2025-03-15"

\* 11pm on a host west of Greenwich: UTC is already on 2025-03-16
C11_Witness ==
    /\ clock.tz > 0
    /\ clock.time = LocalMidnight(1, clock.tz).time + 23 * 3600000
    /\ IsoDay(clock.time) = "2025-03-16"
    /\ targetDate(clock) = "2025-03-15"

\* --- malformed logs
\* C12: the daily view is produced for every roster and every log list: the
\* reconciliation never throws, also when the log matching a roster row on
\* the selected date has no status field.
C12_ReconciliationNeverThrows ==
    ~loading /\ error = Null
       => ~dailyDataThrows(allStudents, attendanceLogs, selectedDate)

\* --- the teacher dashboard
\* the indices of the roster rows that pass the four filters, each read
\* from the dashboard's state on its own
PassingRows ==
    {i \in 1 .. Len(dashboard.studentsData) :
        LET s == dashboard.studentsData[i]
        IN  /\ dashboard.selectedSubject \in {"All", s.subject}
            /\ dashboard.selectedCourse \in {"All", s.course}
            /\ dashboard.selectedSemester \in {"All", s.semester}
            /\ dashboard.showLowAttendance => s.attendanceRate <= 74}

\* the logs of 2025-03-15 counted by the dashboard, by status
CountedToday(status) ==
    Cardinality({k \in 1 .. Len(dashboard.attendanceLogs) :
                    LET log == dashboard.attendanceLogs[k]
                    IN  /\ log.date = "2025-03-15"
                        /\ log.status = status
                        /\ dashboard.selectedSubject \in {"All", log.subject_name}})

\* C13: notMarked of the dashboard is never negative, for every roster, log
\* list and filter selection, in both versions of DashboardContent, also
\* when presentToday + absentToday exceeds the number of students counted.
C13_NotMarkedNeverNegative ==
    DashboardRendered =>
       /\ stats.notMarked >= 0
       /\ statsOfTotal(dashboard, clock).notMarked >= 0

\* more logs of today than students: the difference is clamped to 0
C13_Witness ==
    /\ DashboardRendered
    /\ stats.presentToday + stats.absentToday
          > studentsExpectedTodayOf(dashboard.studentsData, dashboard.selectedSubject)
    /\ stats.presentToday + stats.absentToday > stats.totalStudents
    /\ stats.notMarked = 0

\* C14: notMarked is max(0, total - (presentToday + absentToday)) with total
\* the size of the filtered roster, the total shown as the student count.
C14_NotMarkedOfFilteredRoster ==
    DashboardRendered =>
       LET marked == stats.presentToday + stats.absentToday
       IN  /\ stats.totalStudents = Cardinality(PassingRows)
           /\ stats.notMarked = IF stats.totalStudents > marked
                                THEN stats.totalStudents - marked ELSE 0

\* C15: the list behind the alert and the bulk warning holds exactly the
\* roster rows with a rate strictly below 75, in roster order, and no change
\* of a filter changes it.
C15_LowAttendanceIsGlobal ==
    /\ [](DashboardRendered =>
            LET low == {i \in 1 .. Len(dashboard.studentsData) :
                           dashboard.studentsData[i].attendanceRate <= 74}
            IN  /\ Len(lowAttendanceList) = Cardinality(low)
                /\ Range(lowAttendanceList) = {dashboard.studentsData[i] : i \in low}
                /\ \A i \in 1 .. Len(lowAttendanceList) :
                      lowAttendanceList[i].attendanceRate < 75)
    /\ [][dashboard'.studentsData = dashboard.studentsData
             => lowAttendanceList' = lowAttendanceList]_vars

\* a filter hides a student who is on the alert list
C15_Witness ==
    /\ DashboardRendered
    /\ dashboard.selectedSubject # "All"
    /\ dashboard.showLowAttendance
    /\ \E i \in 1 .. Len(lowAttendanceList) :
          lowAttendanceList[i] \notin Range(filteredStudents)

\* C16: the average rate is 0 for an empty filtered roster; otherwise it is
\* the integer nearest to the mean of the rates of the filtered roster (a
\* mean ending in .5 goes up, as Math.round does) and lies in 0 .. 100.
C16_AverageRate ==
    DashboardRendered =>
       LET n == Cardinality(PassingRows)
           sum == SumOfRates(filteredStudents)
           avg == stats.avgAttendance
       IN  /\ Len(filteredStudents) = n
           /\ n = 0 => avg = 0
           /\ n > 0 => /\ 2 * n * avg - n <= 2 * sum
                       /\ 2 * sum < 2 * n * avg + n
                       /\ avg \in 0 .. 100

\* two students pass the filters and their mean ends in .5
C16_Witness ==
    /\ DashboardRendered
    /\ Len(filteredStudents) = 2
    /\ SumOfRates(filteredStudents) % 2 = 1
    /\ 2 * stats.avgAttendance = SumOfRates(filteredStudents) + 1

\* --- filtering
\* the elements of `input` at the indices in `at`, in the order of `input`
RECURSIVE PickUpTo(_, _, _)
PickUpTo(input, at, n) ==
    IF n = 0 THEN <<>>
    ELSE IF n \in at THEN Append(PickUpTo(input, at, n - 1), input[n])
    ELSE PickUpTo(input, at, n - 1)

Pick(input, at) == PickUpTo(input, at, Len(input))

\* the search texts against a row: 'SHA' is part of the name Asha and of
\* no other name or roll number, 'r2' is the roll number R2
SearchHits(row) ==
    CASE filters.searchQuery = "" -> TRUE
      [] filters.searchQuery = "SHA" -> row.name = "Asha"
      [] filters.searchQuery = "r2" -> row.id = "R2"
      [] OTHER -> FALSE

\* the indices of the rows of the register that satisfy every active filter
TablePassing ==
    {i \in 1 .. Len(dailyData) :
        LET row == dailyData[i]
        IN  /\ SearchHits(row)
            /\ filters.classFilter \in {"all", row.class}
            /\ filters.courseFilter \in {"all", row.course}
            /\ filters.semesterFilter \in {"all", row.semester}
            /\ filters.notMarkedOnly => row.status = Null}

\* C17: filtering is order-independent.  In the register and on the
\* dashboard, the course filter followed by the semester filter gives what
\* the semester filter followed by the course filter gives, and what both
\* give at once; the dashboard's sequential filters give the rows that
\* satisfy the conjunction of the filters; the result is the input with rows
\* left out, in the input's order.
C17_OrderIndependent ==
    /\ Rendered =>
          LET none == [classFilter |-> "all", courseFilter |-> "all",
                       semesterFilter |-> "all", notMarkedOnly |-> FALSE,
                       searchQuery |-> "",
                       page |-> 0, rowsPerPage |-> 10]
              course == [none EXCEPT !.courseFilter = filters.courseFilter]
              semester == [none EXCEPT !.semesterFilter = filters.semesterFilter]
              both == [course EXCEPT !.semesterFilter = filters.semesterFilter]
              courseFirst == filteredRowsOf(filteredRowsOf(dailyData, course), semester)
              semesterFirst == filteredRowsOf(filteredRowsOf(dailyData, semester), course)
          IN  /\ courseFirst = semesterFirst
              /\ courseFirst = filteredRowsOf(dailyData, both)
              /\ filteredRows = Pick(dailyData, TablePassing)
    /\ DashboardRendered =>
          LET d == dashboard
              byCourse == filteredListOf(d.studentsData, "All", d.selectedCourse, "All", FALSE)
              bySemester == filteredListOf(d.studentsData, "All", "All", d.selectedSemester, FALSE)
              courseFirst == filteredListOf(byCourse, "All", "All", d.selectedSemester, FALSE)
              semesterFirst == filteredListOf(bySemester, "All", d.selectedCourse, "All", FALSE)
          IN  /\ courseFirst = semesterFirst
              /\ courseFirst = filteredListOf(d.studentsData, "All", d.selectedCourse,
                                              d.selectedSemester, FALSE)
              /\ filteredStudents = Pick(d.studentsData, PassingRows)

\* the dashboard with a subject, a course and a semester selected, and a
\* student left in the list and one left out
C17_Witness ==
    /\ DashboardRendered
    /\ dashboard.selectedSubject # "All"
    /\ dashboard.selectedCourse # "All"
    /\ dashboard.selectedSemester # "All"
    /\ Len(filteredStudents) = 1
    /\ Len(dashboard.studentsData) = 2

\* C18: the filtered list holds exactly the rows that satisfy every active
\* filter.  Register: the search text is, whatever the case, part of the name
\* or of the roll number; subject, course and semester equal the selected
\* value unless it is 'all'; 'not marked only' keeps the rows whose status is
\* null.  Dashboard: the same for subject, course and semester with 'All';
\* 'low attendance' keeps the rows with a rate strictly below 75, so a rate
\* of 75 is left out.
C18_ExactlyTheMatchingRows ==
    /\ Rendered =>
          /\ Len(filteredRows) = Cardinality(TablePassing)
          /\ \A i \in 1 .. Len(dailyData) :
                (\E k \in 1 .. Len(filteredRows) : filteredRows[k] = dailyData[i])
                   <=> i \in TablePassing
          /\ includes(toLowerCase("Asha"), toLowerCase("SHA"))
          /\ ~includes(toLowerCase("Bilal"), toLowerCase("SHA"))
          /\ toLowerCase("SHA") = "sha"
    /\ DashboardRendered =>
          /\ Len(filteredStudents) = Cardinality(PassingRows)
          /\ \A i \in 1 .. Len(dashboard.studentsData) :
                (\E k \in 1 .. Len(filteredStudents) :
                    filteredStudents[k] = dashboard.studentsData[i])
                   <=> i \in PassingRows
          /\ dashboard.showLowAttendance =>
                \A k \in 1 .. Len(filteredStudents) :
                   filteredStudents[k].attendanceRate \notin 75 .. 100

\* the register searched for 'SHA' with 'not marked only': of two rows the
\* one of Asha, not marked, is kept
C18_Witness ==
    /\ Rendered
    /\ filters.searchQuery = "SHA"
    /\ filters.notMarkedOnly
    /\ Len(dailyData) = 2
    /\ Len(filteredRows) = 1
    /\ filteredRows[1].name = "Asha"
    /\ filteredRows[1].status = Null
    /\ \E i \in 1 .. 2 : dailyData[i].name = "Asha" /\ dailyData[i].status = "present"

\* --- the export
AllSelected ==
    /\ dialog.selectedSubject # ""
    /\ dialog.selectedCourse # ""
    /\ dialog.selectedSemester # ""

MatchingEntries ==
    {i \in 1 .. Len(allStudents) :
        /\ allStudents[i].course = dialog.selectedCourse
        /\ allStudents[i].semester = dialog.selectedSemester
        /\ allStudents[i].class = dialog.selectedSubject}

\* C19: a file is written only by a download with subject, course and
\* semester all selected and at least one roster entry matching the three;
\* a download with a selection missing or with no matching entry sets an
\* error message, writes no file and leaves the dialog open.
C19_FileOnlyForACompleteMatchingSelection ==
    [][/\ downloads' # downloads => AllSelected /\ MatchingEntries # {}
       /\ (HandleDownload /\ ~(AllSelected /\ MatchingEntries # {}))
             => /\ dialog'.error \in {SelectAll, NoStudents}
                /\ dialog'.error = SelectAll <=> ~AllSelected
                /\ downloads' = downloads
                /\ downloadDialogOpen'
                /\ [dialog' EXCEPT !.error = Null] = [dialog EXCEPT !.error = Null]]_vars

C19_Witness ==
    /\ AllSelected
    /\ MatchingEntries = {}
    /\ \E i, j, k \in 1 .. Len(allStudents) :
          /\ allStudents[i].course = dialog.selectedCourse
          /\ allStudents[j].semester = dialog.selectedSemester
          /\ allStudents[k].class = dialog.selectedSubject
    /\ dialog.error = NoStudents
    /\ downloadDialogOpen
    /\ downloads = <<>>

\* the number of days of the months of the month input
DaysOfMonth(m) == IF m = "2025-04" THEN 30 ELSE 31

TwoDigits(n) == IF n < 10 THEN "0" \o ToString(n) ELSE ToString(n)

\* C20: in the file a download writes there is one row per matching roster
\* entry, and the cell of a row and a day of the selected month is P or A
\* by the status of the log of that date, the selected subject and the row's
\* roll number; without such a log it is '-' when some log of the subject
\* has that date, whoever its student is, and empty otherwise.
C20_MatrixCells ==
    [][downloads' # downloads =>
         LET file == downloads'[Len(downloads')]
             held(date) == {l \in Range(attendanceLogs) :
                               l.date = date /\ l.subject_name = dialog.selectedSubject}
             own(date, roll) == {l \in held(date) : l.roll_number = roll}
             expected(date, roll) ==
                 IF own(date, roll) # {}
                 THEN IF \A l \in own(date, roll) : l.status = "Present" THEN "P" ELSE "A"
                 ELSE IF held(date) # {} THEN "-" ELSE ""
         IN  /\ Len(file.rows) = Cardinality(MatchingEntries)
             /\ \A i \in 1 .. Len(file.rows) :
                   /\ \E k \in MatchingEntries : allStudents[k].id = file.rows[i]["Roll No"]
                   /\ \A day \in 1 .. DaysOfMonth(dialog.selectedMonth) :
                         file.rows[i][ToString(day)]
                            = expected(dialog.selectedMonth \o "-" \o TwoDigits(day),
                                       file.rows[i]["Roll No"])]_vars

\* a file with a row marked A on the 14th and '-' on the 15th, the day's
\* only log being of a student of another course, and empty on the 16th
C20_Witness ==
    /\ downloads # <<>>
    /\ \E i \in 1 .. Len(allStudents) :
          /\ allStudents[i].class = "Math"
          /\ allStudents[i].course # "BSc"
          /\ \E l \in Range(attendanceLogs) :
                /\ l.roll_number = allStudents[i].id
                /\ l.subject_name = "Math"
                /\ l.date = "2025-03-15"
    /\ LET row == downloads[1].rows[1]
       IN  row["14"] = "A" /\ row["15"] = "-" /\ row["16"] = ""

\* the dates of the selected month with a log of the selected subject
ClassDates ==
    {l.date : l \in {m \in Range(attendanceLogs) :
                        /\ SubSeq(m.date, 1, 7) = dialog.selectedMonth
                        /\ m.subject_name = dialog.selectedSubject}}

\* n / d x 100 with two decimals: the text of the hundredths nearest to it
TwoDecimals(n, d) ==
    LET below == (10000 * n) \div d
        h == IF 2 * (10000 * n - below * d) < d THEN below ELSE below + 1
    IN  ToString(h \div 100) \o "." \o TwoDigits(h % 100)

\* C21: in every row of the file a download writes, Total Classes is the
\* number of distinct dates of the selected month with a log of the selected
\* subject, Days Present is the number of P cells of the row, and
\* Percentage is Days Present / Total Classes x 100 with two decimals and a
\* percent sign, '0.00%' when Total Classes is 0.
C21_RowTotals ==
    [][downloads' # downloads =>
         LET file == downloads'[Len(downloads')]
         IN  \A i \in 1 .. Len(file.rows) :
                LET row == file.rows[i]
                    total == Cardinality(ClassDates)
                    present == Cardinality({day \in 1 .. DaysOfMonth(dialog.selectedMonth) :
                                               row[ToString(day)] = "P"})
                IN  /\ row["Total Classes"] = total
                    /\ row["Days Present"] = present
                    /\ row["Percentage"]
                          = (IF total = 0 THEN "0.00" ELSE TwoDecimals(present, total)) \o "%"]_vars

\* a row with P on the 14th, a class held on the 15th without a log of the
\* row's student: 2 classes, 1 day present, 50.00%
C21_Witness ==
    /\ downloads # <<>>
    /\ LET row == downloads[1].rows[1]
       IN  /\ row["14"] = "P"
           /\ row["15"] = "-"
           /\ row["Total Classes"] = 2
           /\ row["Days Present"] = 1
           /\ row["Percentage"] = "50.00%"

\* the calendar: the number of days of the months of the sheets
MonthLength(m) ==
    CASE m = "2025-02" -> 28
      [] m = "2024-02" -> 29
      [] m = "2025-04" -> 30
      [] m = "2025-03" -> 31

\* C22: the columns of the file a download writes are Roll No, Name, the
\* days 1 .. n of the selected month in increasing order (n its number of
\* days, 28 to 31), Total Classes, Days Present, Percentage, and every row
\* has a value for exactly these columns.
C22_ColumnOrder ==
    [][downloads' # downloads =>
         LET file == downloads'[Len(downloads')]
             n == MonthLength(dialog.selectedMonth)
         IN  /\ Len(file.header) = n + 5
             /\ file.header[1] = "Roll No"
             /\ file.header[2] = "Name"
             /\ \A day \in 1 .. n : file.header[2 + day] = ToString(day)
             /\ file.header[n + 3] = "Total Classes"
             /\ file.header[n + 4] = "Days Present"
             /\ file.header[n + 5] = "Percentage"
             /\ \A i \in 1 .. Len(file.rows) :
                   DOMAIN file.rows[i] = Range(file.header)]_vars

\* a sheet of February 2024: 29 day columns
C22_Witness ==
    /\ downloads # <<>>
    /\ dialog.selectedMonth = "2024-02"
    /\ Len(downloads[1].header) = 34
    /\ downloads[1].header[31] = "29"
    /\ downloads[1].header[32] = "Total Classes"

AlphanumericChars ==
    {SubSeq("abcdefghijklmnopqrstuvwxyzABCDEFGHIJKLMNOPQRSTUVWXYZ0123456789", i, i) :
        i \in 1 .. 62}

\* the text s with its letters lowercased and every other character than a
\* letter or a digit replaced by `filler`
RECURSIVE Sanitized(_, _)
Sanitized(s, filler) ==
    IF s = "" THEN ""
    ELSE LET c == SubSeq(s, 1, 1)
         IN  (IF c \in AlphanumericChars THEN LowerChar(c) ELSE filler)
                \o Sanitized(SubSeq(s, 2, Len(s)), filler)

\* C23 as stated: the file's name is Attendance_<subject>_<YYYY-MM>.xlsx
\* with the non-alphanumeric characters of the subject removed and the
\* others lowercased.
C23_NonAlphanumericRemoved ==
    [][downloads' # downloads =>
         downloads'[Len(downloads')].fileName
            = "Attendance_" \o Sanitized(dialog.selectedSubject, "") \o "_"
                 \o dialog.selectedMonth \o ".xlsx"]_vars

\* C23 amended: the file's name is Attendance_<subject>_<YYYY-MM>.xlsx with
\* every non-alphanumeric character of the subject replaced by an
\* underscore and the others lowercased.
C23_NonAlphanumericReplaced ==
    [][downloads' # downloads =>
         downloads'[Len(downloads')].fileName
            = "Attendance_" \o Sanitized(dialog.selectedSubject, "_") \o "_"
                 \o dialog.selectedMonth \o ".xlsx"]_vars

C23_Witness ==
    /\ downloads # <<>>
    /\ dialog.selectedSubject = "Data Science"
    /\ downloads[1].fileName = "Attendance_data_science_2025-03.xlsx"

\* --- the bearer token
\* C24: without a stored token no request is sent, and each view that has
\* finished loading shows an error.
C24_NoRequestWithoutToken ==
    token = Null =>
       /\ fetches = <<>>
       /\ ~loading => error # Null
       /\ ~dashboard.loading => dashboard.error # Null

\* --- edits during a save
\* the ids a request of `save` for `subject` carries for `status`, by the
\* log list the save captured
CapturedIds(save, subject, status) ==
    {allStudents[j].internalId :
        j \in {j \in 1 .. Len(allStudents) :
                  \E m \in 1 .. Len(save.logsToSave) :
                     /\ save.logsToSave[m].subject_name = subject
                     /\ save.logsToSave[m].status = status
                     /\ save.logsToSave[m].roll_number = allStudents[j].id}}

\* C25: a save captures, when it is invoked, the date key of the selected
\* date and the entries of the log store of that date; neither changes
\* while the save runs, whatever edits and date changes happen meanwhile,
\* and every request of the save, also one sent after such an edit, carries
\* the captured date and the ids of the captured entries.  (A step that
\* leaves a save as it is leaves all of this as it is.)
C25_SaveUsesCapturedLogs ==
    [][\A k \in {j \in 1 .. Len(saves') : j > Len(saves) \/ saves'[j] # saves[j]} :
          LET save == saves'[k]
          IN  /\ k > Len(saves) =>
                    /\ save.dateKey = formatDateKey(selectedDate)
                    /\ save.logsToSave
                          = SelectSeq(attendanceLogs, LAMBDA l : l.date = save.dateKey)
              /\ k <= Len(saves) =>
                    /\ save.dateKey = saves[k].dateKey
                    /\ save.logsToSave = saves[k].logsToSave
              /\ \A i \in 1 .. Len(save.requests) :
                    LET request == save.requests[i]
                    IN  /\ request.payload.attendance_date = save.dateKey
                        /\ Range(request.payload.present)
                              = CapturedIds(save, request.subject, "Present")
                        /\ Range(request.payload.absent)
                              = CapturedIds(save, request.subject, "Absent")]_vars

\* a save whose second request carries a student as present whom the log
\* store, edited while the first request was pending, holds as absent
C25_Witness ==
    \E k \in 1 .. Len(saves) :
       /\ Len(saves[k].requests) = 2
       /\ saves[k].requests[1].outcome # "pending"
       /\ \E m \in 1 .. Len(attendanceLogs) :
             /\ attendanceLogs[m].date = saves[k].dateKey
             /\ attendanceLogs[m].subject_name = saves[k].requests[2].subject
             /\ attendanceLogs[m].status = "Absent"
             /\ InternalIdOf(allStudents, attendanceLogs[m].roll_number)
                   \in Range(saves[k].requests[2].payload.present)


\* C26: attendance is edited and a save is started only while the selected
\* date is today or 'Edit Past' is on; a date selection in the calendar
\* (a day button or 'Today') leaves edit mode off and the page at 0, so a
\* past date is then shown read-only, and no step taken in the read-only
\* view changes the log store or starts a save.
EditableView == isToday(selectedDate) \/ isEditing

C26_EditOnlyTodayOrEditPast ==
    [][/\ attendanceLogs' # attendanceLogs /\ ~loading => EditableView
       /\ Len(saves') > Len(saves) => EditableView
       /\ SelectDay \/ GoToToday =>
             /\ ~isEditing'
             /\ filters'.page = 0
             /\ ~isToday(selectedDate') => ~EditableView']_vars

\* 2025-03-14 is shown read-only on page 0 at five rows per page, after
\* edits of today's and of that day's marks and a click on Save: the date
\* was selected again after 'Edit Past'
C26_Witness ==
    /\ Rendered
    /\ ~isToday(selectedDate)
    /\ ~EditableView
    /\ filters.page = 0 /\ filters.rowsPerPage = 5
    /\ Len(saves) = 1
    /\ \E i, j \in 1 .. Len(attendanceLogs) :
          /\ attendanceLogs[i].updated_at = "now"
          /\ attendanceLogs[i].date = formatDateKey(selectedDate)
          /\ attendanceLogs[j].updated_at = "now"
          /\ attendanceLogs[j].date = formatDateKey(Now(selectedDate.tz))

\* C27: the UI never removes a mark.  In every step after the fetch the
\* tuples (date, subject, roll number) of the log store are still in the
\* store, every row of the day that was marked is still marked, and a step
\* that changes the store (a local edit; a null toggle value changes
\* nothing) leaves the entries of every tuple but the written one as they
\* were, in their order.
KeysOf(logs) == {LogKey(logs[i]) : i \in 1 .. Len(logs)}

EntriesBut(logs, key) == SelectSeq(logs, LAMBDA log : LogKey(log) # key)

C27_MarksNeverRemoved ==
    [][~loading /\ attendanceLogs' # attendanceLogs =>
          /\ KeysOf(attendanceLogs) \subseteq KeysOf(attendanceLogs')
          /\ \A i \in 1 .. Len(dailyData) :
                dailyData[i].status # Null => dailyData'[i].status # Null
          /\ LET written == LogKey(attendanceLogs'[Len(attendanceLogs')])
             IN  EntriesBut(attendanceLogs', written) = EntriesBut(attendanceLogs, written)]_vars

\* a local edit wrote 'Absent' for a row of the selected day (the row shows
\* it) and the fetched entry of another tuple is in the store as it was
\* fetched
C27_Witness ==
    /\ Rendered
    /\ Len(attendanceLogs) = 2
    /\ attendanceLogs[1].updated_at = Null /\ attendanceLogs[1].created_at # "now"
    /\ attendanceLogs[2].updated_at = "now" /\ attendanceLogs[2].status = "Absent"
    /\ attendanceLogs[2].date = formatDateKey(selectedDate)
    /\ \E i \in 1 .. Len(dailyData) : dailyData[i].status = "absent"

\* --- the pages of the table
\* C28: the current page is an existing page of the filtered list: the list
\* is empty or page * rowsPerPage is smaller than its length.
C28_PageWithinFilteredList ==
    Rendered =>
       \/ Len(filteredRows) = 0
       \/ filters.page * filters.rowsPerPage < Len(filteredRows)

\* --- the summary cards
\* C29: with every log status 'Present' or 'Absent', the cards of the
\* rendered register show Present + Absent + Not Marked = Total Students, and
\* each roster row is counted by exactly one of the three cards.
StatusesAsTheBackendWrites ==
    \A i \in 1 .. Len(attendanceLogs) : attendanceLogs[i].status \in BackendStatuses

CardsCounting(row) ==
    {card \in {"present", "absent", "notMarked"} :
        AttendanceCardsOf(<<row>>)[card] = 1}

C29_CardsAddUp ==
    Rendered /\ StatusesAsTheBackendWrites =>
       /\ AttendanceCards.present + AttendanceCards.absent + AttendanceCards.notMarked
             = AttendanceCards.totalStudents
       /\ AttendanceCards.totalStudents = Len(allStudents)
       /\ \A i \in 1 .. Len(dailyData) : Cardinality(CardsCounting(dailyData[i])) = 1

\* a past day in 'Edit Past' mode after a local edit: of two roster rows one
\* is counted present or absent by an edited mark and the other not marked
C29_Witness ==
    /\ Rendered
    /\ StatusesAsTheBackendWrites
    /\ ~isToday(selectedDate)
    /\ \E i \in 1 .. Len(attendanceLogs) :
          /\ attendanceLogs[i].updated_at = "now"
          /\ attendanceLogs[i].date = formatDateKey(selectedDate)
    /\ AttendanceCards.totalStudents = 2
    /\ AttendanceCards.present + AttendanceCards.absent = 1
    /\ AttendanceCards.notMarked = 1

\* --- the export over repeated log entries
\* the texts of the hundredths from 0.00% to 100.00%
PercentTexts ==
    {ToString(h \div 100) \o "." \o TwoDigits(h % 100) \o "%" : h \in 0 .. 10000}

\* C30: in every row of every written file Days Present is at most Total
\* Classes and Percentage is a text from 0.00% to 100.00%, also when the log
\* list holds several entries of one (date, subject, roll number).
C30_PresentWithinClasses ==
    \A k \in 1 .. Len(downloads) :
       \A i \in 1 .. Len(downloads[k].rows) :
          LET row == downloads[k].rows[i]
          IN  /\ 0 <= row["Days Present"]
              /\ row["Days Present"] <= row["Total Classes"]
              /\ row["Percentage"] \in PercentTexts

\* a file written from a log list with two 'Present' entries of one tuple:
\* the row of that student has 1 class, 1 day present and 100.00%
C30_Witness ==
    /\ Len(downloads) = 1
    /\ \E i, j \in 1 .. Len(attendanceLogs) :
          /\ i < j
          /\ LogKey(attendanceLogs[i]) = LogKey(attendanceLogs[j])
          /\ attendanceLogs[i].status = "Present"
          /\ attendanceLogs[j].status = "Present"
          /\ \E r \in 1 .. Len(downloads[1].rows) :
                /\ downloads[1].rows[r]["Roll No"] = attendanceLogs[i].roll_number
                /\ downloads[1].rows[r]["Total Classes"] = 1
                /\ downloads[1].rows[r]["Days Present"] = 1
                /\ downloads[1].rows[r]["Percentage"] = "100.00%"
=============================================================================
